---- MODULE Spec2Model ----
(***************************************************************************)
(* Figurate partition explorer: the truncated power-series engine          *)
(* (series.py), the figurate generators (figurate.py), the conjugacy-class *)
(* enumerator (symmetric_group.py), the generating-function assembler      *)
(* (partitions_gf.py) and the brute-force validator                        *)
(* (bruteforce_partitions.py).                                             *)
(*                                                                         *)
(* A Python list is a sequence; the coefficient of q^n of a series is the  *)
(* element at index n+1.  An Optional value is a sequence of length 0      *)
(* (None) or 1 (the value).                                                *)
(***************************************************************************)
EXTENDS Integers, Sequences, FiniteSets, TLC

VARIABLES
    \* series engine calls: the arguments and what the calls returned
    s_a, s_b, s_c, s_N, s_e1, s_e2, s_k, s_pc, s_ret,
    \* one series call on list objects: the scalar argument, the heap, the
    \* references passed, the function called and what it returned
    s_scalar, s_heap, s_ra, s_rb, s_op, s_res,
    \* the locals result, factor and e of pow_series while its loop runs
    p_result, p_factor, p_e,
    \* figurate generator calls: family, k, bound N and what the calls returned
    f_family, f_k, f_N, f_gen, f_vals,
    \* what the series generator of the family and base_figurate_series returned
    f_ser, f_base,
    \* conjugacy_classes_Sm(m): its argument, its locals and its position
    c_m, c_parts, c_classes, c_pc,
    \* build_partition_generating_functions: its arguments, locals and position
    g_family, g_k, g_m, g_N, g_compute_distinct, g_pc, g_exc,
    g_base, g_classes, g_ci, g_representations,
    g_sum_P, g_sum_P_distinct, g_P, g_P_distinct,
    \* the class records as objects: the heap of the dicts allocated so far,
    \* the references of the dicts in classes, the bundle an earlier call
    \* returned, and the number of calls made
    o_heap, o_refs, o_first, o_calls,
    \* the brute-force validator run on the same parameters and a target n
    bf_target, bf_max_examples, bf_values, bf_reps, bf_P, bf_Pd,
    \* one call of a brute-force counter: its arguments, the counter called,
    \* what it returned and the recursive calls its search made
    v_values, v_m, v_target, v_max_examples, v_op, v_ret, v_calls,
    \* what the list object the caller passed as values holds
    v_list,
    \* a generator loop or a search run step by step: where the run is, the
    \* loop variable j and the values collected by a generator, the stack of
    \* the backtrack invocations and the nonlocal state of a search
    t_pc, t_j, t_out, t_stack, t_st

powVars == <<p_result, p_factor, p_e>>
serObjVars == <<s_scalar, s_heap, s_ra, s_rb, s_op, s_res, powVars>>
serVars == <<s_a, s_b, s_c, s_N, s_e1, s_e2, s_k, s_pc, s_ret, serObjVars>>
figVars == <<f_family, f_k, f_N, f_gen, f_vals, f_ser, f_base>>
symVars == <<c_m, c_parts, c_classes, c_pc>>
objVars == <<o_heap, o_refs, o_first, o_calls>>
gfVars == <<g_family, g_k, g_m, g_N, g_compute_distinct, g_pc, g_exc,
            g_base, g_classes, g_ci, g_representations,
            g_sum_P, g_sum_P_distinct, g_P, g_P_distinct, objVars>>
tVars == <<t_pc, t_j, t_out, t_stack, t_st>>
valVars == <<v_values, v_m, v_target, v_max_examples, v_op, v_ret, v_calls, v_list, tVars>>
bfVars == <<bf_target, bf_max_examples, bf_values, bf_reps, bf_P, bf_Pd, valVars>>

vars == <<serVars, figVars, symVars, gfVars, bfVars>>

(***************************************************************************)
(* Bounds of the model                                                     *)
(***************************************************************************)
MaxLenA == 3        \* longest first input series drawn (lengths 0..MaxLenA)
MaxLen == 2         \* longest second and third input series drawn
MaxSerN == 2        \* largest truncation order drawn for the series engine
MaxExp == 3         \* largest exponent e1, e2 drawn for pow_series
MaxLoopExp == 6     \* largest exponent drawn for the loop of pow_series run by steps
MaxComposeK == 3    \* largest k drawn for compose_q_to_qk
MaxFigN == 22       \* largest bound N drawn for the figurate generators
MaxK == 5           \* largest k drawn for the centered k-gonal family
MaxSymM == 9        \* largest m drawn for conjugacy_classes_Sm
MaxM == 5           \* largest m drawn for the assembler and the validator
MaxN == 20          \* largest truncation order drawn for the assembler
MaxExamples == 2    \* largest max_examples drawn for the validator
MaxValue == 3       \* largest value in a list drawn for a brute-force counter
MaxValues == 3      \* longest value list drawn for a brute-force counter
MaxBfM == 3         \* largest m drawn for a brute-force counter
MaxTarget == 5      \* largest target drawn for a brute-force counter
MaxNormM == 2       \* largest m drawn for a counter called on varied lists
MaxNormTarget == 3  \* largest target drawn for a counter called on varied lists
MaxTermValue == 2   \* largest value in a list searched step by step
MaxTermLen == 2     \* longest value list searched step by step
MaxTermM == 3       \* largest m searched step by step
MaxTermTarget == 3  \* largest target searched step by step
MaxCallM == 3       \* largest m drawn for two successive builds
MaxCallN == 5       \* largest truncation order drawn for two successive builds

Coeffs == {-1, 0, 2}   \* coefficient values of the drawn input series

SeriesOfLen(n) == [1..n -> Coeffs]
InputSeriesA == UNION {SeriesOfLen(n) : n \in 0..MaxLenA}
InputSeries == UNION {SeriesOfLen(n) : n \in 0..MaxLen}

None == <<>>
Some(x) == <<x>>

\* TRUE of every value.  An operator's argument is evaluated where it is first
\* used; the loops below test Evaluated(acc) on entry so that the accumulator
\* they carry is evaluated iteration by iteration, as the code does, and not as
\* one nested expression after the last iteration
Evaluated(x) == x = x

(***************************************************************************)
(* series.py                                                               *)
(***************************************************************************)
\* a[:N+1] padded with zeros to length N+1
_ensure_length(a, N) ==
    [i \in 1..(N + 1) |-> IF i <= Len(a) THEN a[i] ELSE 0]

zero_series(N) == [i \in 1..(N + 1) |-> 0]

one_series(N) == [zero_series(N) EXCEPT ![1] = 1]

add_series(a, b, N) ==
    LET a_ == _ensure_length(a, N)
        b_ == _ensure_length(b, N)
    IN  [i \in 1..(N + 1) |-> a_[i] + b_[i]]

sub_series(a, b, N) ==
    LET a_ == _ensure_length(a, N)
        b_ == _ensure_length(b, N)
    IN  [i \in 1..(N + 1) |-> a_[i] - b_[i]]

scalar_mul_series(a, scalar, N) ==
    LET a_ == _ensure_length(a, N)
    IN  [i \in 1..Len(a_) |-> scalar * a_[i]]

\* the inner loop of mul_series: for j in range(max_j + 1)
RECURSIVE mul_inner(_, _, _, _, _, _)
mul_inner(out, ai, i, b_, j, max_j) ==
    IF Evaluated(out) /\ j > max_j THEN out
    ELSE LET bj == b_[j + 1]
             out1 == IF bj # 0 THEN [out EXCEPT ![i + j + 1] = @ + ai * bj]
                     ELSE out
         IN  mul_inner(out1, ai, i, b_, j + 1, max_j)

\* the outer loop with "if ai == 0: continue" turned into a break
RECURSIVE mul_outer_break(_, _, _, _, _)
mul_outer_break(out, a_, b_, i, N) ==
    IF Evaluated(out) /\ i > N THEN out
    ELSE LET ai == a_[i + 1]
         IN  IF ai = 0 THEN out
             ELSE mul_outer_break(mul_inner(out, ai, i, b_, 0, N - i),
                                  a_, b_, i + 1, N)

\* the loops with the index i + j wrapped around at N + 1
RECURSIVE mul_inner_cyclic(_, _, _, _, _, _)
mul_inner_cyclic(out, ai, i, b_, j, N) ==
    IF Evaluated(out) /\ j > N THEN out
    ELSE mul_inner_cyclic([out EXCEPT ![((i + j) % (N + 1)) + 1] = @ + ai * b_[j + 1]],
                          ai, i, b_, j + 1, N)

RECURSIVE mul_outer_cyclic(_, _, _, _, _)
mul_outer_cyclic(out, a_, b_, i, N) ==
    IF Evaluated(out) /\ i > N THEN out
    ELSE mul_outer_cyclic(mul_inner_cyclic(out, a_[i + 1], i, b_, 0, N),
                          a_, b_, i + 1, N)

\* the outer loop of mul_series: for i in range(N + 1)
RECURSIVE mul_outer(_, _, _, _, _)
mul_outer(out, a_, b_, i, N) ==
    IF Evaluated(out) /\ i > N THEN out
    ELSE LET ai == a_[i + 1]
             out1 == IF ai = 0 THEN out
                     ELSE mul_inner(out, ai, i, b_, 0, N - i)
         IN  mul_outer(out1, a_, b_, i + 1, N)

mul_series(a, b, N) ==
    mul_outer(zero_series(N), _ensure_length(a, N), _ensure_length(b, N), 0, N)

\* the loop of pow_series with "if e & 1" written "if e == 1"
RECURSIVE pow_loop_eq1(_, _, _, _)
pow_loop_eq1(result, factor, e, N) ==
    IF Evaluated(<<result, factor>>) /\ e > 0
    THEN pow_loop_eq1(IF e = 1 THEN mul_series(result, factor, N) ELSE result,
                        mul_series(factor, factor, N), e \div 2, N)
    ELSE result

\* one iteration with factor squared ahead of "if e & 1"
pow_iteration_square_first(result, factor, e, N) ==
    LET squared == mul_series(factor, factor, N)
    IN  [result |-> IF e % 2 = 1 THEN mul_series(result, squared, N) ELSE result,
         factor |-> squared,
         e |-> e \div 2]

\* one iteration of "while e > 0": the locals after the body
pow_iteration(result, factor, e, N) ==
    [result |-> IF e % 2 = 1 THEN mul_series(result, factor, N) ELSE result,
     factor |-> mul_series(factor, factor, N),
     e |-> e \div 2]

\* the binary-exponentiation loop of pow_series: while e > 0
RECURSIVE pow_loop(_, _, _, _)
pow_loop(result, factor, e, N) ==
    IF Evaluated(<<result, factor>>) /\ e > 0
    THEN pow_loop(IF e % 2 = 1 THEN mul_series(result, factor, N) ELSE result,
                  mul_series(factor, factor, N), e \div 2, N)
    ELSE result

\* pow_series for exponent >= 0 (a negative exponent raises ValueError)
pow_series(base, exponent, N) ==
    IF exponent = 0 THEN one_series(N)
    ELSE IF exponent = 1 THEN _ensure_length(base, N)
    ELSE pow_loop(one_series(N), _ensure_length(base, N), exponent, N)

\* the loop of shift_series: for n in range(k, N + 1)
RECURSIVE shift_loop(_, _, _, _, _)
shift_loop(out, a_, k, n, N) ==
    IF Evaluated(out) /\ n > N THEN out
    ELSE shift_loop([out EXCEPT ![n + 1] = a_[n - k + 1]], a_, k, n + 1, N)

\* shift_series for k >= 0 (a negative k raises ValueError)
shift_series(a, k, N) ==
    shift_loop(zero_series(N), _ensure_length(a, N), k, k, N)

\* the loop of compose_q_to_qk writing at index n instead of k * n
RECURSIVE compose_loop_nok(_, _, _, _, _, _)
compose_loop_nok(out, a_, k, n, last, N) ==
    IF Evaluated(out) /\ n > last THEN out
    ELSE LET coeff == a_[n + 1]
             out1 == IF coeff # 0 /\ n <= N
                     THEN [out EXCEPT ![n + 1] = @ + coeff] ELSE out
         IN  compose_loop_nok(out1, a_, k, n + 1, last, N)

\* the loop of compose_q_to_qk: for n in range(min(len(a_) - 1, max_n) + 1)
RECURSIVE compose_loop(_, _, _, _, _, _)
compose_loop(out, a_, k, n, last, N) ==
    IF Evaluated(out) /\ n > last THEN out
    ELSE LET coeff == a_[n + 1]
             m == k * n
             out1 == IF coeff # 0 /\ m <= N
                     THEN [out EXCEPT ![m + 1] = @ + coeff] ELSE out
         IN  compose_loop(out1, a_, k, n + 1, last, N)

Min(x, y) == IF x <= y THEN x ELSE y

\* compose_q_to_qk for k >= 1 (k <= 0 raises ValueError)
compose_q_to_qk(a, k, N) ==
    LET max_n == N \div k
    IN  compose_loop(zero_series(N), a, k, 0, Min(Len(a) - 1, max_n), N)

(***************************************************************************)
(* Python built-ins and exceptions                                         *)
(***************************************************************************)
\* a call that returned val, and a call that raised the exception e
Ok(val) == [exc |-> "none", val |-> val]
Raise(e) == [exc |-> e, val |-> <<>>]

\* sorted(lst) on a list of integers: ascending, duplicates kept
RECURSIVE sorted_insert(_, _)
sorted_insert(lst, x) ==
    IF lst = <<>> THEN <<x>>
    ELSE IF x < Head(lst) THEN <<x>> \o lst
    ELSE <<Head(lst)>> \o sorted_insert(Tail(lst), x)

RECURSIVE sorted(_)
sorted(lst) ==
    IF lst = <<>> THEN <<>>
    ELSE sorted_insert(sorted(SubSeq(lst, 1, Len(lst) - 1)), lst[Len(lst)])

\* sorted(s) on a set of integers
RECURSIVE sorted_set(_)
sorted_set(S) ==
    IF S = {} THEN <<>>
    ELSE LET x == CHOOSE y \in S : \A z \in S : y <= z
         IN  <<x>> \o sorted_set(S \ {x})

\* math.factorial(n), n >= 0
RECURSIVE factorial(_)
factorial(n) == IF n <= 0 THEN 1 ELSE n * factorial(n - 1)

\* x ** e on integers, e >= 0
RECURSIVE int_pow(_, _)
int_pow(x, e) == IF e <= 0 THEN 1 ELSE x * int_pow(x, e - 1)

(***************************************************************************)
(* series.py at the level of list objects.  The heap is the sequence of    *)
(* the lists allocated so far and a reference is an index into it; a       *)
(* function takes the heap and the references of its arguments and gives   *)
(* the heap it leaves and what it returns.                                 *)
(***************************************************************************)
\* a new list object holding lst
alloc(heap, lst) == [heap |-> Append(heap, lst), ref |-> Len(heap) + 1]

\* _ensure_length with "return a[:]" written "return a"
_ensure_length_same(heap, ra, N) ==
    IF Len(heap[ra]) = N + 1 THEN [heap |-> heap, ref |-> ra]
    ELSE alloc(heap, _ensure_length(heap[ra], N))

\* _ensure_length with "return a[: N + 1]" written "return a[:]"
_ensure_length_uncut(heap, ra, N) ==
    IF Len(heap[ra]) < N + 1
    THEN alloc(heap, heap[ra] \o [i \in 1..(N + 1 - Len(heap[ra])) |-> 0])
    ELSE alloc(heap, heap[ra])

\* a[:], a[:] + [0] * (N + 1 - len(a)) and a[: N + 1] each build a new list
_ensure_length_obj(heap, ra, N) ==
    IF Len(heap[ra]) = N + 1 THEN alloc(heap, heap[ra])
    ELSE IF Len(heap[ra]) < N + 1
         THEN alloc(heap, heap[ra] \o [i \in 1..(N + 1 - Len(heap[ra])) |-> 0])
    ELSE alloc(heap, SubSeq(heap[ra], 1, N + 1))

zero_series_obj(heap, N) == alloc(heap, zero_series(N))

\* coeffs = [0] * (N + 1); coeffs[0] = 1
one_series_obj(heap, N) ==
    LET coeffs == alloc(heap, zero_series(N))
    IN  [heap |-> [coeffs.heap EXCEPT ![coeffs.ref][1] = 1], ref |-> coeffs.ref]

add_series_obj(heap, ra, rb, N) ==
    LET a_ == _ensure_length_obj(heap, ra, N)
        b_ == _ensure_length_obj(a_.heap, rb, N)
        h == b_.heap
    IN  alloc(h, [i \in 1..(N + 1) |-> h[a_.ref][i] + h[b_.ref][i]])

sub_series_obj(heap, ra, rb, N) ==
    LET a_ == _ensure_length_obj(heap, ra, N)
        b_ == _ensure_length_obj(a_.heap, rb, N)
        h == b_.heap
    IN  alloc(h, [i \in 1..(N + 1) |-> h[a_.ref][i] - h[b_.ref][i]])

scalar_mul_series_obj(heap, ra, scalar, N) ==
    LET a_ == _ensure_length_obj(heap, ra, N)
        h == a_.heap
    IN  alloc(h, [i \in 1..Len(h[a_.ref]) |-> scalar * h[a_.ref][i]])

\* the loops write into out only
mul_series_obj(heap, ra, rb, N) ==
    LET a_ == _ensure_length_obj(heap, ra, N)
        b_ == _ensure_length_obj(a_.heap, rb, N)
        out == alloc(b_.heap, zero_series(N))
        h == out.heap
    IN  [heap |-> [h EXCEPT ![out.ref] = mul_outer(@, h[a_.ref], h[b_.ref], 0, N)],
         ref |-> out.ref]

\* while e > 0, on the objects result and factor
RECURSIVE pow_loop_obj(_, _, _, _, _)
pow_loop_obj(heap, result, factor, e, N) ==
    IF Evaluated(heap) /\ e > 0
    THEN LET r == IF e % 2 = 1 THEN mul_series_obj(heap, result, factor, N)
                  ELSE [heap |-> heap, ref |-> result]
             f == mul_series_obj(r.heap, factor, factor, N)
         IN  pow_loop_obj(f.heap, r.ref, f.ref, e \div 2, N)
    ELSE [heap |-> heap, ref |-> result]

\* pow_series without "if exponent < 0: raise"
pow_series_unchecked(heap, rbase, exponent, N) ==
    LET r == IF exponent = 0 THEN one_series_obj(heap, N)
             ELSE IF exponent = 1 THEN _ensure_length_obj(heap, rbase, N)
             ELSE LET result == one_series_obj(heap, N)
                      factor == _ensure_length_obj(result.heap, rbase, N)
                  IN  pow_loop_obj(factor.heap, result.ref, factor.ref, exponent, N)
    IN  [heap |-> r.heap, ret |-> Ok(r.ref)]

\* a call of pow_series: the heap it leaves, and Ok(result) or the exception
pow_series_obj(heap, rbase, exponent, N) ==
    IF exponent < 0 THEN [heap |-> heap, ret |-> Raise("ValueError")]
    ELSE LET r == IF exponent = 0 THEN one_series_obj(heap, N)
                  ELSE IF exponent = 1 THEN _ensure_length_obj(heap, rbase, N)
                  ELSE LET result == one_series_obj(heap, N)
                           factor == _ensure_length_obj(result.heap, rbase, N)
                       IN  pow_loop_obj(factor.heap, result.ref, factor.ref,
                                        exponent, N)
         IN  [heap |-> r.heap, ret |-> Ok(r.ref)]

\* a call of shift_series
shift_series_obj(heap, ra, k, N) ==
    IF k < 0 THEN [heap |-> heap, ret |-> Raise("ValueError")]
    ELSE LET a_ == _ensure_length_obj(heap, ra, N)
             out == alloc(a_.heap, zero_series(N))
             h == out.heap
         IN  [heap |-> [h EXCEPT ![out.ref] = shift_loop(@, h[a_.ref], k, k, N)],
              ret |-> Ok(out.ref)]

\* a call of compose_q_to_qk; a_ = a[:] is a new list
compose_q_to_qk_obj(heap, ra, k, N) ==
    IF k <= 0 THEN [heap |-> heap, ret |-> Raise("ValueError")]
    ELSE LET a_ == alloc(heap, heap[ra])
             out == alloc(a_.heap, zero_series(N))
             h == out.heap
             max_n == N \div k
         IN  [heap |-> [h EXCEPT ![out.ref] =
                           compose_loop(@, h[a_.ref], k, 0,
                                        Min(Len(h[a_.ref]) - 1, max_n), N)],
              ret |-> Ok(out.ref)]

(***************************************************************************)
(* figurate.py                                                             *)
(***************************************************************************)
\* the loop of triangular_numbers_up_to: while True
RECURSIVE triangular_loop(_, _, _)
triangular_loop(values, j, N) ==
    LET t == (j * (j + 1)) \div 2
    IN  IF t > N THEN values
        ELSE triangular_loop(Append(values, t), j + 1, N)

triangular_numbers_up_to(N) == triangular_loop(<<>>, 0, N)

\* the number a generator computes in iteration j of its loop: t, s or ck
figurate_term(family, k, j) ==
    IF family = "triangular" THEN (j * (j + 1)) \div 2
    ELSE IF family = "square" THEN j * j
    ELSE 1 + ((k[1] * j * (j - 1)) \div 2)

\* the loop of square_numbers_up_to: while True
RECURSIVE square_loop(_, _, _)
square_loop(values, j, N) ==
    LET s == j * j
    IN  IF s > N THEN values
        ELSE square_loop(Append(values, s), j + 1, N)

square_numbers_up_to(N) == square_loop(<<>>, 0, N)

\* the loop of centered_polygonal_numbers_up_to: while True
RECURSIVE centered_loop(_, _, _, _)
centered_loop(values_set, j, k, N) ==
    LET ck == 1 + ((k * j * (j - 1)) \div 2)
    IN  IF ck > N THEN values_set
        ELSE centered_loop(values_set \cup {ck}, j + 1, k, N)

\* the same loop appending to a list, so that C_k(0) = C_k(1) = 1 is kept twice
RECURSIVE centered_loop_list(_, _, _, _)
centered_loop_list(values, j, k, N) ==
    LET ck == 1 + ((k * j * (j - 1)) \div 2)
    IN  IF ck > N THEN values
        ELSE centered_loop_list(Append(values, ck), j + 1, k, N)

centered_polygonal_numbers_up_to_list(k, N) ==
    IF k < 3 THEN Raise("ValueError")
    ELSE Ok(sorted(centered_loop_list(<<>>, 0, k, N)))

\* centered_polygonal_numbers_up_to without "if k < 3: raise"
centered_polygonal_numbers_up_to_any_k(k, N) ==
    Ok(sorted_set(centered_loop({}, 0, k, N)))

centered_polygonal_numbers_up_to(k, N) ==
    IF k < 3 THEN Raise("ValueError")
    ELSE Ok(sorted_set(centered_loop({}, 0, k, N)))

\* the marking loop run over values[1:]
RECURSIVE mark_values_skip_first(_, _, _)
mark_values_skip_first(coeffs, values, i) ==
    IF i > Len(values) THEN coeffs
    ELSE mark_values_skip_first(
            IF i = 1 THEN coeffs ELSE [coeffs EXCEPT ![values[i] + 1] = 1],
            values, i + 1)

\* coeffs[v] = 1 for v in values, from position i of values on
RECURSIVE mark_values(_, _, _)
mark_values(coeffs, values, i) ==
    IF i > Len(values) THEN coeffs
    ELSE mark_values([coeffs EXCEPT ![values[i] + 1] = 1], values, i + 1)

triangular_series(N) ==
    mark_values(zero_series(N), triangular_numbers_up_to(N), 1)

square_series(N) ==
    mark_values(zero_series(N), square_numbers_up_to(N), 1)

centered_polygonal_series(k, N) ==
    LET r == centered_polygonal_numbers_up_to(k, N)
    IN  IF r.exc # "none" THEN r
        ELSE Ok(mark_values(zero_series(N), r.val, 1))

(***************************************************************************)
(* symmetric_group.py                                                      *)
(***************************************************************************)
\* integer_partitions._helper and its loop: for k in range(min(...), 0, -1);
\* result is the list the helper appends to.  _helper_any_part is the helper
\* with the bound max_part on the next part left out
RECURSIVE _helper(_, _, _, _)
RECURSIVE _helper_loop(_, _, _, _)
_helper_any_part(result, remaining, max_part, prefix) ==
    IF remaining = 0 THEN Append(result, prefix)
    ELSE _helper_loop(result, remaining, prefix, remaining)

_helper(result, remaining, max_part, prefix) ==
    IF remaining = 0 THEN Append(result, prefix)
    ELSE _helper_loop(result, remaining, prefix, Min(remaining, max_part))

_helper_loop(result, remaining, prefix, k) ==
    IF Evaluated(result) /\ k < 1 THEN result
    ELSE _helper_loop(_helper(result, remaining - k, k, Append(prefix, k)),
                      remaining, prefix, k - 1)

integer_partitions(n) == _helper(<<>>, n, n, <<>>)

\* mult[length] = mult.get(length, 0) + 1 on a dict kept in insertion order
\* "mult[length] = mult.get(length, 0) + 1" written "mult[length] = 1"
mult_increment_set_one(mult, length) ==
    IF \E i \in 1..Len(mult) : mult[i].length = length
    THEN mult
    ELSE Append(mult, [length |-> length, count |-> 1])

mult_increment(mult, length) ==
    IF \E i \in 1..Len(mult) : mult[i].length = length
    THEN [i \in 1..Len(mult) |->
            IF mult[i].length = length
            THEN [mult[i] EXCEPT !.count = @ + 1] ELSE mult[i]]
    ELSE Append(mult, [length |-> length, count |-> 1])

RECURSIVE multiplicities_loop(_, _, _)
multiplicities_loop(mult, cycle_type, i) ==
    IF i > Len(cycle_type) THEN mult
    ELSE multiplicities_loop(mult_increment(mult, cycle_type[i]), cycle_type, i + 1)

cycle_type_multiplicities(cycle_type) == multiplicities_loop(<<>>, cycle_type, 1)

\* the loop below with length * count in place of length ** count
RECURSIVE denom_loop_times(_, _, _)
denom_loop_times(denom, mult, i) ==
    IF i > Len(mult) THEN denom
    ELSE denom_loop_times(denom * (mult[i].length * mult[i].count)
                                * factorial(mult[i].count), mult, i + 1)

\* denom *= (length ** count) * factorial(count), over mult.items()
RECURSIVE denom_loop(_, _, _)
denom_loop(denom, mult, i) ==
    IF i > Len(mult) THEN denom
    ELSE denom_loop(denom * int_pow(mult[i].length, mult[i].count)
                          * factorial(mult[i].count), mult, i + 1)

\* the class size with the factor m_l! of the denominator left out
class_size_no_mfact(cycle_type, m) ==
    LET mult == cycle_type_multiplicities(cycle_type)
        denom == [i \in 1..Len(mult) |-> int_pow(mult[i].length, mult[i].count)]
        prod[i \in 0..Len(mult)] == IF i = 0 THEN 1 ELSE prod[i - 1] * denom[i]
    IN  factorial(m) \div prod[Len(mult)]

class_size_for_cycle_type(cycle_type, m) ==
    LET mult == cycle_type_multiplicities(cycle_type)
        numerator == factorial(m)
        denom == denom_loop(1, mult, 1)
    IN  numerator \div denom

\* the parity taken from the number of cycles alone
parity_by_cycle_count(cycle_type, m) ==
    IF Len(cycle_type) % 2 = 0 THEN "even" ELSE "odd"

parity_for_cycle_type(cycle_type, m) ==
    LET r == Len(cycle_type)
        sign == int_pow(-1, m - r)
    IN  IF sign = 1 THEN "even" ELSE "odd"

\* the record conjugacy_classes_Sm builds for one cycle type (the three
\* descriptive strings of the record are not modelled); C_series is the key
\* the assembler attaches later
class_info(ct, m) ==
    [cycle_type |-> ct,
     class_size |-> class_size_for_cycle_type(ct, m),
     parity |-> parity_for_cycle_type(ct, m),
     C_series |-> None]

conjugacy_classes_Sm(m) ==
    LET parts == integer_partitions(m)
    IN  [i \in 1..Len(parts) |-> class_info(parts[i], m)]

\* conjugacy_classes_Sm handing out the dicts it built for m before
conjugacy_classes_Sm_cached(heap, m) ==
    LET classes == conjugacy_classes_Sm(m)
        Built == {r \in 0..(Len(heap) - Len(classes)) :
                     \A i \in 1..Len(classes) :
                        heap[r + i].cycle_type = classes[i].cycle_type}
    IN  IF classes # <<>> /\ Built # {}
        THEN LET r == CHOOSE r \in Built : TRUE
             IN  [heap |-> heap, refs |-> [i \in 1..Len(classes) |-> r + i]]
        ELSE [heap |-> heap \o classes,
              refs |-> [i \in 1..Len(classes) |-> Len(heap) + i]]

\* conjugacy_classes_Sm on dict objects: every info = {...} is a new dict;
\* heap is the sequence of the dicts allocated so far, refs the list returned
conjugacy_classes_Sm_obj(heap, m) ==
    LET classes == conjugacy_classes_Sm(m)
    IN  [heap |-> heap \o classes,
         refs |-> [i \in 1..Len(classes) |-> Len(heap) + i]]

(***************************************************************************)
(* partitions_gf.py                                                        *)
(***************************************************************************)
base_figurate_series(family, N, k) ==
    IF family = "triangular" THEN Ok(triangular_series(N))
    ELSE IF family = "square" THEN Ok(square_series(N))
    ELSE IF family = "centered_k"
         THEN IF k = None THEN Raise("ValueError")
              ELSE centered_polygonal_series(k[1], N)
    ELSE Raise("ValueError")

\* the loop of class_generating_series with psi(q) in place of psi(q^length)
RECURSIVE class_series_loop_nocompose(_, _, _, _, _)
class_series_loop_nocompose(result, mult, i, base_series, N) ==
    IF Evaluated(result) /\ i > Len(mult) THEN result
    ELSE LET psi_power == pow_series(base_series, mult[i].count, N)
         IN  class_series_loop_nocompose(mul_series(result, psi_power, N),
                                         mult, i + 1, base_series, N)

\* the loop of class_generating_series: for length, count in mult.items()
RECURSIVE class_series_loop(_, _, _, _, _)
class_series_loop(result, mult, i, base_series, N) ==
    IF Evaluated(result) /\ i > Len(mult) THEN result
    ELSE LET psi_q_l == compose_q_to_qk(base_series, mult[i].length, N)
             psi_power == pow_series(psi_q_l, mult[i].count, N)
         IN  class_series_loop(mul_series(result, psi_power, N),
                               mult, i + 1, base_series, N)

\* class_generating_series with "result = zero_series(N)"
class_generating_series_from_zero(cycle_type, base_series, N) ==
    class_series_loop(zero_series(N), cycle_type_multiplicities(cycle_type),
                      1, base_series, N)

class_generating_series(cycle_type, base_series, N) ==
    class_series_loop(one_series(N), cycle_type_multiplicities(cycle_type),
                      1, base_series, N)

\* [x + y for x, y in zip(xs, ys)]
zip_add(xs, ys) == [i \in 1..Min(Len(xs), Len(ys)) |-> xs[i] + ys[i]]

\* [coeff // m_factorial for coeff in xs]
floor_div_all(xs, m_factorial) == [i \in 1..Len(xs) |-> xs[i] \div m_factorial]

(***************************************************************************)
(* bruteforce_partitions.py                                                *)
(***************************************************************************)
figurate_values_up_to(family, n, k) ==
    IF n < 0 THEN Ok(<<>>)
    ELSE IF family = "triangular" THEN Ok(sorted(triangular_numbers_up_to(n)))
    ELSE IF family = "square" THEN Ok(sorted(square_numbers_up_to(n)))
    ELSE IF family = "centered_k"
         THEN IF k = None THEN Raise("ValueError")
              ELSE LET r == centered_polygonal_numbers_up_to(k[1], n)
                   IN  IF r.exc # "none" THEN r ELSE Ok(sorted(r.val))
    ELSE Raise("ValueError")

\* [v for v in values if v <= target], not sorted
values_up_to_target_unsorted(values, target) ==
    SelectSeq(values, LAMBDA v : v <= target)

\* sorted([v for v in values if v <= target])
values_up_to_target(values, target) ==
    sorted(SelectSeq(values, LAMBDA v : v <= target))

\* values.sort() on the list that was passed, then the filtered copy
values_sorted_in_place(values, target) ==
    [caller |-> sorted(values),
     values |-> values_up_to_target(sorted(values), target)]

\* values = sorted([v for v in values if v <= target]): the comprehension and
\* sorted build new lists and the name values is bound to the result; caller
\* is what the list object that was passed holds afterwards
values_rebound(values, target) ==
    [caller |-> values, values |-> values_up_to_target(values, target)]

\* the nonlocal state of one search: count, examples and tuple_so_far; calls
\* is the history of the recursive calls the search made, one entry
\* <<pos, idx, start_index>> for backtrack(pos + 1, start_index, ...) called
\* with the value at index idx chosen for position pos
search_start(m) ==
    [count |-> 0, examples |-> <<>>, tuple_so_far |-> [i \in 1..m |-> 0],
     calls |-> {}]

\* "if pos == m:" with the count increment placed under
\* "if len(examples) < max_examples"
record_leaf_capped(st, remaining, max_examples) ==
    IF remaining = 0 /\ Len(st.examples) < max_examples
    THEN [st EXCEPT !.count = @ + 1,
                    !.examples = Append(@, st.tuple_so_far)]
    ELSE st

\* "if pos == m:" with examples.insert(0, ...) for examples.append(...)
record_leaf_prepend(st, remaining, max_examples) ==
    IF remaining = 0
    THEN [st EXCEPT !.count = @ + 1,
                    !.examples = IF Len(@) < max_examples
                                 THEN <<st.tuple_so_far>> \o @ ELSE @]
    ELSE st

\* "if pos == m:" of both backtrack functions
record_leaf(st, remaining, max_examples) ==
    IF remaining = 0
    THEN [st EXCEPT !.count = @ + 1,
                    !.examples = IF Len(@) < max_examples
                                 THEN Append(@, st.tuple_so_far) ELSE @]
    ELSE st

\* count_ordered_representations.backtrack and its loop: for v in values;
\* ordered_loop_ge is the loop with the pruning test written "if v >= remaining"
RECURSIVE ordered_backtrack(_, _, _, _, _, _)
RECURSIVE ordered_loop(_, _, _, _, _, _, _)
ordered_backtrack(st, values, m, max_examples, pos, remaining) ==
    IF pos = m THEN record_leaf(st, remaining, max_examples)
    ELSE ordered_loop(st, values, m, max_examples, pos, remaining, 1)

ordered_loop_ge(st, values, m, max_examples, pos, remaining, i) ==
    IF Evaluated(st) /\ i > Len(values) THEN st
    ELSE LET v == values[i]
         IN  IF v >= remaining THEN st
             ELSE ordered_loop(
                    ordered_backtrack([st EXCEPT !.tuple_so_far[pos + 1] = v],
                                      values, m, max_examples, pos + 1,
                                      remaining - v),
                    values, m, max_examples, pos, remaining, i + 1)

ordered_loop(st, values, m, max_examples, pos, remaining, i) ==
    IF Evaluated(st) /\ i > Len(values) THEN st
    ELSE LET v == values[i]
         IN  IF v > remaining THEN st
             ELSE ordered_loop(
                    ordered_backtrack([st EXCEPT !.tuple_so_far[pos + 1] = v],
                                      values, m, max_examples, pos + 1,
                                      remaining - v),
                    values, m, max_examples, pos, remaining, i + 1)

\* count_ordered_representations with "if m <= 0: return 0, []" in front
count_ordered_representations_m_positive(values, m, target, max_examples) ==
    IF m <= 0 THEN [count |-> 0, examples |-> <<>>]
    ELSE LET st == ordered_backtrack(search_start(m),
                                     values_rebound(values, target).values,
                                     m, max_examples, 0, target)
         IN  [count |-> st.count, examples |-> st.examples]

count_ordered_representations(values, m, target, max_examples) ==
    LET st == ordered_backtrack(search_start(m),
                                values_rebound(values, target).values,
                                m, max_examples, 0, target)
    IN  [count |-> st.count, examples |-> st.examples]

\* the invocation backtrack(pos, start_index, remaining) with its loop about
\* to take index idx (counted from 0)
loop_frame(pos, start_index, remaining) ==
    [pos |-> pos, idx |-> start_index, remaining |-> remaining]

\* where the loop of the invocation called for the value at idx starts: 0 in
\* "for v in values", next_start in the unordered search
start_of_call(op, idx) ==
    IF op = "count_ordered_representations" THEN 0
    ELSE IF op = "count_unordered_partitions_distinct" THEN idx + 1
    ELSE idx

\* the recursive call made with pos for pos + 1
backtrack_call_same_pos(frame, v, op) ==
    loop_frame(frame.pos, start_of_call(op, frame.idx), frame.remaining - v)

\* backtrack(pos + 1, remaining - v) and
\* backtrack(pos + 1, next_start, remaining - v)
backtrack_call(frame, v, op) ==
    loop_frame(frame.pos + 1, start_of_call(op, frame.idx), frame.remaining - v)

\* count_unordered_partitions.backtrack and its loop:
\* for idx in range(start_index, len(values)); idx counts from 0
RECURSIVE unordered_backtrack(_, _, _, _, _, _, _, _)
RECURSIVE unordered_loop(_, _, _, _, _, _, _, _)
unordered_backtrack(st, values, m, distinct, max_examples, pos, start_index, remaining) ==
    IF pos = m THEN record_leaf(st, remaining, max_examples)
    ELSE unordered_loop(st, values, m, distinct, max_examples, pos,
                        start_index, remaining)

\* the loop with "next_start = idx" for distinct partitions too
unordered_loop_same_start(st, values, m, distinct, max_examples, pos, idx, remaining) ==
    IF Evaluated(st) /\ idx >= Len(values) THEN st
    ELSE LET v == values[idx + 1]
         IN  IF v > remaining THEN st
             ELSE IF distinct /\ pos > 0 /\ v <= st.tuple_so_far[pos]
             THEN unordered_loop(st, values, m, distinct, max_examples, pos,
                                 idx + 1, remaining)
             ELSE LET next_start == idx
                  IN  unordered_loop(
                        unordered_backtrack(
                            [st EXCEPT !.tuple_so_far[pos + 1] = v,
                                       !.calls = @ \cup {<<pos, idx, next_start>>}],
                            values, m, distinct, max_examples, pos + 1,
                            next_start, remaining - v),
                        values, m, distinct, max_examples, pos, idx + 1,
                        remaining)

unordered_loop(st, values, m, distinct, max_examples, pos, idx, remaining) ==
    IF Evaluated(st) /\ idx >= Len(values) THEN st
    ELSE LET v == values[idx + 1]
         IN  IF v > remaining THEN st
             ELSE IF distinct /\ pos > 0 /\ v <= st.tuple_so_far[pos]
             THEN unordered_loop(st, values, m, distinct, max_examples, pos,
                                 idx + 1, remaining)
             ELSE LET next_start == IF ~distinct THEN idx ELSE idx + 1
                  IN  unordered_loop(
                        unordered_backtrack(
                            [st EXCEPT !.tuple_so_far[pos + 1] = v,
                                       !.calls = @ \cup {<<pos, idx, next_start>>}],
                            values, m, distinct, max_examples, pos + 1,
                            next_start, remaining - v),
                        values, m, distinct, max_examples, pos, idx + 1,
                        remaining)

\* values = sorted(...); count = 0; examples = []; tuple_so_far = [0] * m;
\* backtrack(0, 0, target)
unordered_search(values, m, target, distinct, max_examples) ==
    unordered_backtrack(search_start(m), values_rebound(values, target).values,
                        m, distinct, max_examples, 0, 0, target)

count_unordered_partitions(values, m, target, distinct, max_examples) ==
    LET st == unordered_search(values, m, target, distinct, max_examples)
    IN  [count |-> st.count, examples |-> st.examples]

\* the wrapper passing distinct=True
count_unordered_partitions_non_distinct_as_distinct(values, m, target, max_examples) ==
    count_unordered_partitions(values, m, target, TRUE, max_examples)

count_unordered_partitions_non_distinct(values, m, target, max_examples) ==
    count_unordered_partitions(values, m, target, FALSE, max_examples)

count_unordered_partitions_distinct(values, m, target, max_examples) ==
    count_unordered_partitions(values, m, target, TRUE, max_examples)

(***************************************************************************)
(* The state in which a component is not in use                            *)
(***************************************************************************)
PowIdle == p_result = <<>> /\ p_factor = <<>> /\ p_e = 0

SerObjIdle ==
    /\ s_scalar = 0 /\ s_heap = <<>> /\ s_ra = 0 /\ s_rb = 0
    /\ s_op = "none" /\ s_res = None
    /\ PowIdle

SerIdle ==
    /\ s_a = <<>> /\ s_b = <<>> /\ s_c = <<>> /\ s_N = 0
    /\ s_e1 = 0 /\ s_e2 = 0 /\ s_k = 1
    /\ s_pc = "idle" /\ s_ret = <<>>
    /\ SerObjIdle

FigIdle ==
    /\ f_family = "triangular" /\ f_k = None /\ f_N = 0
    /\ f_gen = None /\ f_vals = None
    /\ f_ser = None /\ f_base = None

SymIdle ==
    /\ c_m = 0 /\ c_parts = <<>> /\ c_classes = <<>> /\ c_pc = "idle"

GfLocalsUnset ==
    /\ g_base = <<>> /\ g_classes = <<>> /\ g_ci = 0
    /\ g_representations = <<>>
    /\ g_sum_P = <<>> /\ g_sum_P_distinct = None
    /\ g_P = <<>> /\ g_P_distinct = None

GfIdle ==
    /\ g_family = "triangular" /\ g_k = None /\ g_m = 0 /\ g_N = 0
    /\ g_compute_distinct = FALSE /\ g_pc = "idle" /\ g_exc = "none"
    /\ o_heap = <<>> /\ o_refs = <<>> /\ o_first = None /\ o_calls = 0
    /\ GfLocalsUnset

TermIdle ==
    /\ t_pc = "idle" /\ t_j = 0 /\ t_out = <<>> /\ t_stack = <<>>
    /\ t_st = search_start(0)

ValIdle ==
    /\ v_values = <<>> /\ v_m = 0 /\ v_target = 0 /\ v_max_examples = 0
    /\ v_op = "none" /\ v_ret = None /\ v_calls = {}
    /\ v_list = <<>>
    /\ TermIdle

BfUnset ==
    /\ bf_target = None /\ bf_max_examples = 0 /\ bf_values = <<>>
    /\ bf_reps = None /\ bf_P = None /\ bf_Pd = None
    /\ ValIdle

(***************************************************************************)
(* Calls of the series engine                                              *)
(***************************************************************************)
\* mul_series on three drawn series
InitMul ==
    /\ s_a \in InputSeriesA /\ s_b \in InputSeries /\ s_c \in InputSeries
    /\ s_N \in 0..MaxSerN
    /\ s_e1 = 0 /\ s_e2 = 0 /\ s_k = 1
    /\ s_pc = "mul" /\ s_ret = <<>>
    /\ SerObjIdle
    /\ FigIdle /\ SymIdle /\ GfIdle /\ BfUnset

MulCalls ==
    /\ s_pc = "mul"
    /\ s_ret' = [ab |-> mul_series(s_a, s_b, s_N),
                 ba |-> mul_series(s_b, s_a, s_N),
                 ab_c |-> mul_series(mul_series(s_a, s_b, s_N), s_c, s_N),
                 a_bc |-> mul_series(s_a, mul_series(s_b, s_c, s_N), s_N)]
    /\ s_pc' = "mul_done"
    /\ UNCHANGED <<s_a, s_b, s_c, s_N, s_e1, s_e2, s_k, serObjVars>>
    /\ UNCHANGED <<figVars, symVars, gfVars, bfVars>>

NextMul == MulCalls

SpecMul == InitMul /\ [][NextMul]_vars

\* pow_series on a drawn series with drawn exponents
InitPow ==
    /\ s_a \in InputSeriesA /\ s_b = <<>> /\ s_c = <<>>
    /\ s_N \in 0..MaxSerN
    /\ s_e1 \in 0..MaxExp /\ s_e2 \in 0..MaxExp /\ s_k = 1
    /\ s_pc = "pow" /\ s_ret = <<>>
    /\ SerObjIdle
    /\ FigIdle /\ SymIdle /\ GfIdle /\ BfUnset

PowCalls ==
    /\ s_pc = "pow"
    /\ s_ret' = [p0 |-> pow_series(s_a, 0, s_N),
                 p1 |-> pow_series(s_a, 1, s_N),
                 pe1 |-> pow_series(s_a, s_e1, s_N),
                 pe2 |-> pow_series(s_a, s_e2, s_N),
                 psum |-> pow_series(s_a, s_e1 + s_e2, s_N)]
    /\ s_pc' = "pow_done"
    /\ UNCHANGED <<s_a, s_b, s_c, s_N, s_e1, s_e2, s_k, serObjVars>>
    /\ UNCHANGED <<figVars, symVars, gfVars, bfVars>>

NextPow == PowCalls

SpecPow == InitPow /\ [][NextPow]_vars

\* compose_q_to_qk on a drawn series and on one_series(N)
InitCompose ==
    /\ s_a \in InputSeriesA /\ s_b = <<>> /\ s_c = <<>>
    /\ s_N \in 0..MaxSerN
    /\ s_e1 = 0 /\ s_e2 = 0 /\ s_k \in 1..MaxComposeK
    /\ s_pc = "compose" /\ s_ret = <<>>
    /\ SerObjIdle
    /\ FigIdle /\ SymIdle /\ GfIdle /\ BfUnset

ComposeCalls ==
    /\ s_pc = "compose"
    /\ s_ret' = [c |-> compose_q_to_qk(s_a, s_k, s_N),
                 c_one |-> compose_q_to_qk(one_series(s_N), s_k, s_N)]
    /\ s_pc' = "compose_done"
    /\ UNCHANGED <<s_a, s_b, s_c, s_N, s_e1, s_e2, s_k, serObjVars>>
    /\ UNCHANGED <<figVars, symVars, gfVars, bfVars>>

NextCompose == ComposeCalls

SpecCompose == InitCompose /\ [][NextCompose]_vars

(***************************************************************************)
(* One call of a series function on list objects, and the caller changing  *)
(* the returned list afterwards                                            *)
(***************************************************************************)
\* the functions called
SeriesOps ==
    {"zero_series", "one_series", "add_series", "sub_series",
     "scalar_mul_series", "mul_series", "pow_series", "shift_series",
     "compose_q_to_qk"}

\* the caller holds two lists a and b (s_rb = s_ra: the same list is passed
\* for both); the integer argument (scalar, exponent, k) is one drawn value
InitEngine ==
    /\ s_a \in InputSeries /\ s_b \in InputSeries /\ s_c = <<>>
    /\ s_N \in 0..MaxSerN
    /\ s_e1 \in -1..MaxExp /\ s_e2 = 0 /\ s_k = s_e1 /\ s_scalar = s_e1
    /\ s_pc = "engine" /\ s_ret = <<>>
    /\ s_heap = <<s_a, s_b>> /\ s_ra = 1 /\ s_rb \in {1, 2}
    /\ s_rb = 1 => s_b = s_a
    /\ s_op = "none" /\ s_res = None
    /\ PowIdle
    /\ FigIdle /\ SymIdle /\ GfIdle /\ BfUnset

\* what every call leaves alone
EngineFrame ==
    /\ UNCHANGED <<s_a, s_b, s_c, s_N, s_e1, s_e2, s_k, s_ret, s_scalar, s_ra, s_rb>>
    /\ UNCHANGED powVars
    /\ UNCHANGED <<figVars, symVars, gfVars, bfVars>>

\* a call of a function that returns a list
Returned(op, r) ==
    /\ s_pc = "engine"
    /\ s_pc' = "engine_done"
    /\ s_op' = op
    /\ s_heap' = r.heap
    /\ s_res' = Some(Ok(r.ref))
    /\ EngineFrame

\* a call of a function that returns a list or raises
Called(op, r) ==
    /\ s_pc = "engine"
    /\ s_pc' = "engine_done"
    /\ s_op' = op
    /\ s_heap' = r.heap
    /\ s_res' = Some(r.ret)
    /\ EngineFrame

CallZero == Returned("zero_series", zero_series_obj(s_heap, s_N))

CallOne == Returned("one_series", one_series_obj(s_heap, s_N))

CallAdd == Returned("add_series", add_series_obj(s_heap, s_ra, s_rb, s_N))

CallSub == Returned("sub_series", sub_series_obj(s_heap, s_ra, s_rb, s_N))

CallScalarMul == Returned("scalar_mul_series", scalar_mul_series_obj(s_heap, s_ra, s_scalar, s_N))

CallMul == Returned("mul_series", mul_series_obj(s_heap, s_ra, s_rb, s_N))

CallPow == Called("pow_series", pow_series_obj(s_heap, s_ra, s_e1, s_N))

CallShift == Called("shift_series", shift_series_obj(s_heap, s_ra, s_k, s_N))

CallComposeQK == Called("compose_q_to_qk", compose_q_to_qk_obj(s_heap, s_ra, s_k, s_N))

\* the caller changes one element of the list it was given: res[i] += 1
ChangeResult ==
    /\ s_pc = "engine_done"
    /\ s_res # None /\ s_res[1].exc = "none"
    /\ \E i \in 1..Len(s_heap[s_res[1].val]) :
          s_heap' = [s_heap EXCEPT ![s_res[1].val][i] = @ + 1]
    /\ s_pc' = "engine_changed"
    /\ UNCHANGED <<s_op, s_res>>
    /\ EngineFrame

NextEngine ==
    \/ CallZero \/ CallOne \/ CallAdd \/ CallSub \/ CallScalarMul
    \/ CallMul \/ CallPow \/ CallShift \/ CallComposeQK
    \/ ChangeResult

SpecEngine == InitEngine /\ [][NextEngine]_vars

(***************************************************************************)
(* Calls of the figurate generators                                        *)
(***************************************************************************)
Families == {"triangular", "square", "centered_k"}

\* the (family, k) pairs drawn: the three families with k in 3..MaxK, and the
\* rejected ones (k absent, k = 2, an unknown family tag)
FamilyArgs ==
    {<<"triangular", None>>, <<"square", None>>, <<"hexagonal", None>>}
    \cup {<<"centered_k", kk>> : kk \in {None} \cup {Some(k) : k \in 2..MaxK}}

InitFig ==
    /\ \E fa \in FamilyArgs : f_family = fa[1] /\ f_k = fa[2]
    /\ f_N \in -1..MaxFigN
    /\ f_gen = None /\ f_vals = None
    /\ f_ser = None /\ f_base = None
    /\ SerIdle /\ SymIdle /\ GfIdle /\ BfUnset

\* triangular_numbers_up_to(N), square_numbers_up_to(N) or
\* centered_polygonal_numbers_up_to(k, N), called directly
CallGenerator ==
    /\ f_gen = None
    /\ f_family \in Families
    /\ f_family = "centered_k" => f_k # None
    /\ f_gen' = Some(IF f_family = "triangular"
                     THEN Ok(triangular_numbers_up_to(f_N))
                     ELSE IF f_family = "square"
                     THEN Ok(square_numbers_up_to(f_N))
                     ELSE centered_polygonal_numbers_up_to(f_k[1], f_N))
    /\ UNCHANGED <<f_family, f_k, f_N, f_vals, f_ser, f_base>>
    /\ UNCHANGED <<serVars, symVars, gfVars, bfVars>>

\* figurate_values_up_to(family, n, k)
CallFigurateValues ==
    /\ f_vals = None
    /\ f_vals' = Some(figurate_values_up_to(f_family, f_N, f_k))
    /\ UNCHANGED <<f_family, f_k, f_N, f_gen, f_ser, f_base>>
    /\ UNCHANGED <<serVars, symVars, gfVars, bfVars>>

\* triangular_series(N), square_series(N) or centered_polygonal_series(k, N),
\* called directly
CallSeries ==
    /\ f_ser = None
    /\ f_family \in Families
    /\ f_family = "centered_k" => f_k # None
    /\ f_ser' = Some(IF f_family = "triangular"
                     THEN Ok(triangular_series(f_N))
                     ELSE IF f_family = "square"
                     THEN Ok(square_series(f_N))
                     ELSE centered_polygonal_series(f_k[1], f_N))
    /\ UNCHANGED <<f_family, f_k, f_N, f_gen, f_vals, f_base>>
    /\ UNCHANGED <<serVars, symVars, gfVars, bfVars>>

\* base_figurate_series(family, N, k)
CallBaseSeries ==
    /\ f_base = None
    /\ f_base' = Some(base_figurate_series(f_family, f_N, f_k))
    /\ UNCHANGED <<f_family, f_k, f_N, f_gen, f_vals, f_ser>>
    /\ UNCHANGED <<serVars, symVars, gfVars, bfVars>>

NextFig == CallGenerator \/ CallFigurateValues \/ CallSeries \/ CallBaseSeries

SpecFig == InitFig /\ [][NextFig]_vars

(***************************************************************************)
(* conjugacy_classes_Sm(m), one step per statement                         *)
(***************************************************************************)
InitSym ==
    /\ c_m \in -1..MaxSymM
    /\ c_parts = <<>> /\ c_classes = <<>> /\ c_pc = "call"
    /\ SerIdle /\ FigIdle /\ GfIdle /\ BfUnset

\* parts = integer_partitions(m); classes = []
ClassesCall ==
    /\ c_pc = "call"
    /\ c_parts' = integer_partitions(c_m)
    /\ c_classes' = <<>>
    /\ c_pc' = "loop"
    /\ UNCHANGED c_m
    /\ UNCHANGED <<serVars, figVars, gfVars, bfVars>>

\* one iteration of "for ct in parts": classes.append(info)
ClassesAppend ==
    /\ c_pc = "loop"
    /\ Len(c_classes) < Len(c_parts)
    /\ c_classes' = Append(c_classes, class_info(c_parts[Len(c_classes) + 1], c_m))
    /\ UNCHANGED <<c_m, c_parts, c_pc>>
    /\ UNCHANGED <<serVars, figVars, gfVars, bfVars>>

\* return classes
ClassesReturn ==
    /\ c_pc = "loop"
    /\ Len(c_classes) = Len(c_parts)
    /\ c_pc' = "returned"
    /\ UNCHANGED <<c_m, c_parts, c_classes>>
    /\ UNCHANGED <<serVars, figVars, gfVars, bfVars>>

NextSym == ClassesCall \/ ClassesAppend \/ ClassesReturn

SpecSym == InitSym /\ [][NextSym]_vars

(***************************************************************************)
(* build_partition_generating_functions, one step per loop iteration, and  *)
(* the validator run on its parameters                                     *)
(***************************************************************************)
InitGF ==
    /\ \E fa \in FamilyArgs : g_family = fa[1] /\ g_k = fa[2]
    /\ g_m \in -1..MaxM
    /\ g_N \in 0..MaxN
    /\ g_compute_distinct \in BOOLEAN
    /\ g_pc = "call" /\ g_exc = "none"
    /\ o_heap = <<>> /\ o_refs = <<>> /\ o_first = None /\ o_calls = 1
    /\ GfLocalsUnset
    /\ BfUnset
    /\ SerIdle /\ FigIdle /\ SymIdle

\* the statements before the loop: the check of m, base, classes,
\* representations, sum_P, sum_P_distinct
BuildCall ==
    /\ g_pc = "call"
    /\ LET base == base_figurate_series(g_family, g_N, g_k)
       IN  IF g_m <= 0 \/ base.exc # "none"
           THEN /\ g_pc' = "raised"
                /\ g_exc' = IF g_m <= 0 THEN "ValueError" ELSE base.exc
                /\ UNCHANGED <<g_base, g_classes, g_ci, g_representations,
                               g_sum_P, g_sum_P_distinct, o_heap, o_refs>>
           ELSE /\ g_pc' = "loop"
                /\ g_exc' = "none"
                /\ g_base' = base.val
                /\ g_classes' = conjugacy_classes_Sm(g_m)
                /\ LET classes == conjugacy_classes_Sm_obj(o_heap, g_m)
                   IN  o_heap' = classes.heap /\ o_refs' = classes.refs
                /\ g_ci' = 1
                /\ g_representations' = pow_series(base.val, g_m, g_N)
                /\ g_sum_P' = zero_series(g_N)
                /\ g_sum_P_distinct' = IF g_compute_distinct
                                       THEN Some(zero_series(g_N)) ELSE None
    /\ UNCHANGED <<g_family, g_k, g_m, g_N, g_compute_distinct, g_P, g_P_distinct>>
    /\ UNCHANGED <<o_first, o_calls>>
    /\ UNCHANGED <<serVars, figVars, symVars, bfVars>>

\* one iteration of "for c in classes"
BuildClass ==
    /\ g_pc = "loop"
    /\ g_ci <= Len(g_classes)
    /\ LET c == g_classes[g_ci]
           C_i == class_generating_series(c.cycle_type, g_base, g_N)
           scaled == scalar_mul_series(C_i, c.class_size, g_N)
           sign == IF c.parity = "even" THEN 1 ELSE -1
           scaled_sign == scalar_mul_series(C_i, sign * c.class_size, g_N)
       IN  /\ g_classes' = [g_classes EXCEPT ![g_ci].C_series = Some(C_i)]
           /\ o_heap' = [o_heap EXCEPT ![o_refs[g_ci]].C_series = Some(C_i)]
           /\ g_sum_P' = zip_add(g_sum_P, scaled)
           /\ g_sum_P_distinct' =
                 IF g_compute_distinct /\ g_sum_P_distinct # None
                 THEN Some(zip_add(g_sum_P_distinct[1], scaled_sign))
                 ELSE g_sum_P_distinct
    /\ g_ci' = g_ci + 1
    /\ UNCHANGED <<g_family, g_k, g_m, g_N, g_compute_distinct, g_pc, g_exc,
                   g_base, g_representations, g_P, g_P_distinct>>
    /\ UNCHANGED <<o_refs, o_first, o_calls>>
    /\ UNCHANGED <<serVars, figVars, symVars, bfVars>>

\* the division by m! and the return of the result bundle
BuildReturn ==
    /\ g_pc = "loop"
    /\ g_ci > Len(g_classes)
    /\ LET m_factorial == factorial(g_m)
       IN  /\ g_P' = floor_div_all(g_sum_P, m_factorial)
           /\ g_P_distinct' =
                 IF g_compute_distinct /\ g_sum_P_distinct # None
                 THEN Some(floor_div_all(g_sum_P_distinct[1], m_factorial))
                 ELSE None
    /\ g_pc' = "returned"
    /\ UNCHANGED <<g_family, g_k, g_m, g_N, g_compute_distinct, g_exc,
                   g_base, g_classes, g_ci, g_representations,
                   g_sum_P, g_sum_P_distinct, objVars>>
    /\ UNCHANGED <<serVars, figVars, symVars, bfVars>>

\* the validator, as run_check runs it on the parameters of the build and a
\* target n within the truncation order
BruteForce ==
    /\ g_pc = "returned"
    /\ bf_target = None
    /\ \E n \in 0..g_N, max_examples \in 0..MaxExamples :
          LET values == figurate_values_up_to(g_family, n, g_k).val
          IN  /\ bf_target' = Some(n)
              /\ bf_max_examples' = max_examples
              /\ bf_values' = values
              /\ bf_reps' = Some(count_ordered_representations(
                                    values, g_m, n, max_examples))
              /\ bf_P' = Some(count_unordered_partitions_non_distinct(
                                    values, g_m, n, max_examples))
              /\ bf_Pd' = Some(count_unordered_partitions_distinct(
                                    values, g_m, n, max_examples))
    /\ UNCHANGED valVars
    /\ UNCHANGED <<serVars, figVars, symVars, gfVars>>

NextGF == BuildCall \/ BuildClass \/ BuildReturn \/ BruteForce

SpecGF == InitGF /\ [][NextGF]_vars

(***************************************************************************)
(* The loop of pow_series, one iteration at a time                         *)
(***************************************************************************)
\* pow_series(s_a, s_e1, s_N) with s_e1 >= 2 has run lines 115-117 and is at
\* "while e > 0"
InitPowLoop ==
    /\ s_a \in InputSeriesA /\ s_b = <<>> /\ s_c = <<>>
    /\ s_N \in 0..MaxSerN
    /\ s_e1 \in 2..MaxLoopExp /\ s_e2 = 0 /\ s_k = 1
    /\ s_pc = "pow_loop" /\ s_ret = <<>>
    /\ s_scalar = 0 /\ s_heap = <<>> /\ s_ra = 0 /\ s_rb = 0
    /\ s_op = "none" /\ s_res = None
    /\ p_result = one_series(s_N)
    /\ p_factor = _ensure_length(s_a, s_N)
    /\ p_e = s_e1
    /\ FigIdle /\ SymIdle /\ GfIdle /\ BfUnset

PowLoopFrame ==
    /\ UNCHANGED <<s_a, s_b, s_c, s_N, s_e1, s_e2, s_k>>
    /\ UNCHANGED <<s_scalar, s_heap, s_ra, s_rb, s_op, s_res>>
    /\ UNCHANGED <<figVars, symVars, gfVars, bfVars>>

\* e > 0: the body of the loop
PowIterate ==
    /\ s_pc = "pow_loop"
    /\ p_e > 0
    /\ LET it == pow_iteration(p_result, p_factor, p_e, s_N)
       IN  /\ p_result' = it.result
           /\ p_factor' = it.factor
           /\ p_e' = it.e
    /\ UNCHANGED <<s_pc, s_ret>>
    /\ PowLoopFrame

\* e > 0 fails: return result
PowExit ==
    /\ s_pc = "pow_loop"
    /\ ~(p_e > 0)
    /\ s_ret' = p_result
    /\ s_pc' = "pow_returned"
    /\ UNCHANGED powVars
    /\ PowLoopFrame

NextPowLoop == PowIterate \/ PowExit

SpecPowLoop == InitPowLoop /\ [][NextPowLoop]_vars

(***************************************************************************)
(* A generator loop or a backtracking search, one step at a time           *)
(***************************************************************************)
TermLists == UNION {[1..n -> 0..MaxTermValue] : n \in 0..MaxTermLen}

Counters ==
    {"count_ordered_representations",
     "count_unordered_partitions_non_distinct",
     "count_unordered_partitions_distinct"}

\* a generator is entered with values = [] (values_set = set()) and j = 0, or
\* a counter has bound values and made the call backtrack(0, target)
InitTerm ==
    /\ \/ /\ t_pc = "generate"
          /\ \/ f_family \in {"triangular", "square"} /\ f_k = None
             \/ f_family = "centered_k" /\ f_k \in {Some(k) : k \in 3..MaxK}
          /\ f_N \in -1..MaxFigN
          /\ t_j = 0
          /\ t_out = IF f_family = "centered_k" THEN {} ELSE <<>>
          /\ t_stack = <<>> /\ t_st = search_start(0)
          /\ v_values = <<>> /\ v_m = 0 /\ v_target = 0 /\ v_max_examples = 0
          /\ v_op = "none"
       \/ /\ t_pc = "search"
          /\ v_values \in TermLists
          /\ v_m \in 0..MaxTermM
          /\ v_target \in 0..MaxTermTarget
          /\ v_max_examples \in 0..1
          /\ v_op \in Counters
          /\ t_stack = <<loop_frame(0, 0, v_target)>>
          /\ t_st = search_start(v_m)
          /\ t_j = 0 /\ t_out = <<>>
          /\ f_family = "triangular" /\ f_k = None /\ f_N = 0
    /\ f_gen = None /\ f_vals = None /\ f_ser = None /\ f_base = None
    /\ v_ret = None /\ v_calls = {} /\ v_list = v_values
    /\ bf_target = None /\ bf_max_examples = 0 /\ bf_values = <<>>
    /\ bf_reps = None /\ bf_P = None /\ bf_Pd = None
    /\ SerIdle /\ SymIdle /\ GfIdle

\* what a step of a loop leaves alone
TermFrame ==
    /\ UNCHANGED <<v_values, v_m, v_target, v_max_examples, v_op, v_calls, v_list>>
    /\ UNCHANGED <<bf_target, bf_max_examples, bf_values, bf_reps, bf_P, bf_Pd>>
    /\ UNCHANGED <<serVars, figVars, symVars, gfVars>>

\* one iteration of "while True" that appends (adds) the number and goes on
GenAppend ==
    /\ t_pc = "generate"
    /\ LET x == figurate_term(f_family, f_k, t_j)
       IN  /\ ~(x > f_N)
           /\ t_out' = IF f_family = "centered_k" THEN t_out \cup {x}
                       ELSE Append(t_out, x)
    /\ t_j' = t_j + 1
    /\ UNCHANGED <<t_pc, t_stack, t_st, v_ret>>
    /\ TermFrame

\* the iteration that breaks, and the return (sorted(values_set) in
\* centered_polygonal_numbers_up_to)
GenBreak ==
    /\ t_pc = "generate"
    /\ figurate_term(f_family, f_k, t_j) > f_N
    /\ t_out' = IF f_family = "centered_k" THEN sorted_set(t_out) ELSE t_out
    /\ t_pc' = "done"
    /\ UNCHANGED <<t_j, t_stack, t_st, v_ret>>
    /\ TermFrame

\* the sorted value list of the running search
SearchValues == values_rebound(v_values, v_target).values

\* the innermost invocation of backtrack
TopFrame == t_stack[Len(t_stack)]

\* the loop of the innermost invocation has a value to try: it is not
\* exhausted and does not break
LoopTries ==
    /\ t_pc = "search" /\ t_stack # <<>>
    /\ TopFrame.pos # v_m
    /\ TopFrame.idx < Len(SearchValues)
    /\ ~(SearchValues[TopFrame.idx + 1] > TopFrame.remaining)

\* "continue" is taken for the value the loop tries
LoopSkips ==
    /\ v_op = "count_unordered_partitions_distinct"
    /\ TopFrame.pos > 0
    /\ SearchValues[TopFrame.idx + 1] <= t_st.tuple_so_far[TopFrame.pos]

\* "if pos == m:" and its return
SearchLeaf ==
    /\ t_pc = "search" /\ t_stack # <<>>
    /\ TopFrame.pos = v_m
    /\ t_st' = record_leaf(t_st, TopFrame.remaining, v_max_examples)
    /\ t_stack' = SubSeq(t_stack, 1, Len(t_stack) - 1)
    /\ UNCHANGED <<t_pc, t_j, t_out, v_ret>>
    /\ TermFrame

\* the loop is exhausted or breaks on v > remaining, and backtrack returns
SearchLoopEnd ==
    /\ t_pc = "search" /\ t_stack # <<>>
    /\ TopFrame.pos # v_m
    /\ IF TopFrame.idx < Len(SearchValues)
       THEN SearchValues[TopFrame.idx + 1] > TopFrame.remaining
       ELSE TRUE
    /\ t_stack' = SubSeq(t_stack, 1, Len(t_stack) - 1)
    /\ UNCHANGED <<t_pc, t_j, t_out, t_st, v_ret>>
    /\ TermFrame

\* "continue" of the distinct search: the loop takes the next index
SearchContinue ==
    /\ LoopTries /\ LoopSkips
    /\ t_stack' = [t_stack EXCEPT ![Len(t_stack)].idx = @ + 1]
    /\ UNCHANGED <<t_pc, t_j, t_out, t_st, v_ret>>
    /\ TermFrame

\* tuple_so_far[pos] = v and the recursive call; the loop of the caller goes
\* on with the next index when the call returns
SearchRecurse ==
    /\ LoopTries /\ ~LoopSkips
    /\ LET v == SearchValues[TopFrame.idx + 1]
       IN  /\ t_st' = [t_st EXCEPT !.tuple_so_far[TopFrame.pos + 1] = v]
           /\ t_stack' = Append([t_stack EXCEPT ![Len(t_stack)].idx = @ + 1],
                                backtrack_call(TopFrame, v, v_op))
    /\ UNCHANGED <<t_pc, t_j, t_out, v_ret>>
    /\ TermFrame

\* backtrack(0, ...) has returned: return count, examples
SearchReturn ==
    /\ t_pc = "search" /\ t_stack = <<>>
    /\ v_ret' = Some([count |-> t_st.count, examples |-> t_st.examples])
    /\ t_pc' = "done"
    /\ UNCHANGED <<t_j, t_out, t_stack, t_st>>
    /\ TermFrame

NextTerm ==
    \/ GenAppend \/ GenBreak
    \/ SearchLeaf \/ SearchLoopEnd \/ SearchContinue \/ SearchRecurse
    \/ SearchReturn

\* the code is one thread that runs on: a step that can be taken is taken
SpecTerm == InitTerm /\ [][NextTerm]_vars /\ WF_vars(NextTerm)

(***************************************************************************)
(* Two successive calls of build_partition_generating_functions            *)
(***************************************************************************)
InitCalls ==
    /\ \E fa \in FamilyArgs : g_family = fa[1] /\ g_k = fa[2]
    /\ g_m \in 1..MaxCallM
    /\ g_N \in 0..MaxCallN
    /\ g_compute_distinct \in BOOLEAN
    /\ g_pc = "call" /\ g_exc = "none"
    /\ o_heap = <<>> /\ o_refs = <<>> /\ o_first = None /\ o_calls = 1
    /\ GfLocalsUnset
    /\ BfUnset
    /\ SerIdle /\ FigIdle /\ SymIdle

\* the caller keeps the bundle the first call returned (records holds what
\* the dicts of class_data held at that moment) and calls again
CallAgain ==
    /\ g_pc = "returned"
    /\ o_calls = 1
    /\ o_first' = Some([family |-> g_family, k |-> g_k, m |-> g_m, N |-> g_N,
                        representations |-> g_representations,
                        P |-> g_P, P_distinct |-> g_P_distinct,
                        class_data |-> o_refs,
                        records |-> [i \in 1..Len(o_refs) |-> o_heap[o_refs[i]]]])
    /\ o_calls' = 2
    /\ \E fa \in FamilyArgs : g_family' = fa[1] /\ g_k' = fa[2]
    /\ g_m' \in 1..MaxCallM
    /\ g_N' \in 0..MaxCallN
    /\ g_compute_distinct' \in BOOLEAN
    /\ g_pc' = "call" /\ g_exc' = "none"
    /\ g_base' = <<>> /\ g_classes' = <<>> /\ g_ci' = 0
    /\ g_representations' = <<>>
    /\ g_sum_P' = <<>> /\ g_sum_P_distinct' = None
    /\ g_P' = <<>> /\ g_P_distinct' = None
    /\ o_refs' = <<>>
    /\ UNCHANGED o_heap
    /\ UNCHANGED <<serVars, figVars, symVars, bfVars>>

NextCalls == BuildCall \/ BuildClass \/ BuildReturn \/ CallAgain

SpecCalls == InitCalls /\ [][NextCalls]_vars

(***************************************************************************)
(* One call of a brute-force counter on a drawn value list                 *)
(***************************************************************************)
\* the value lists drawn: non-negative integers in any order, repeats allowed
ValueLists == UNION {[1..n -> 0..MaxValue] : n \in 0..MaxValues}

InitBF ==
    /\ v_values \in ValueLists
    /\ v_m \in 0..MaxBfM
    /\ v_target \in 0..MaxTarget
    /\ v_max_examples \in 0..MaxExamples
    /\ v_op = "none" /\ v_ret = None /\ v_calls = {}
    /\ v_list = v_values
    /\ TermIdle
    /\ bf_target = None /\ bf_max_examples = 0 /\ bf_values = <<>>
    /\ bf_reps = None /\ bf_P = None /\ bf_Pd = None
    /\ SerIdle /\ FigIdle /\ SymIdle /\ GfIdle

\* what a call of a counter leaves alone
CounterFrame ==
    /\ UNCHANGED <<v_values, v_m, v_target, v_max_examples, tVars>>
    /\ UNCHANGED <<bf_target, bf_max_examples, bf_values, bf_reps, bf_P, bf_Pd>>
    /\ UNCHANGED <<serVars, figVars, symVars, gfVars>>

CallOrdered ==
    /\ v_op = "none"
    /\ v_op' = "count_ordered_representations"
    /\ v_ret' = Some(count_ordered_representations(
                        v_values, v_m, v_target, v_max_examples))
    /\ v_calls' = {}
    /\ v_list' = values_rebound(v_list, v_target).caller
    /\ CounterFrame

CallNonDistinct ==
    /\ v_op = "none"
    /\ v_op' = "count_unordered_partitions_non_distinct"
    /\ v_ret' = Some(count_unordered_partitions_non_distinct(
                        v_values, v_m, v_target, v_max_examples))
    /\ v_calls' = unordered_search(v_values, v_m, v_target, FALSE,
                                   v_max_examples).calls
    /\ v_list' = values_rebound(v_list, v_target).caller
    /\ CounterFrame

CallDistinct ==
    /\ v_op = "none"
    /\ v_op' = "count_unordered_partitions_distinct"
    /\ v_ret' = Some(count_unordered_partitions_distinct(
                        v_values, v_m, v_target, v_max_examples))
    /\ v_calls' = unordered_search(v_values, v_m, v_target, TRUE,
                                   v_max_examples).calls
    /\ v_list' = values_rebound(v_list, v_target).caller
    /\ CounterFrame

NextBF == CallOrdered \/ CallNonDistinct \/ CallDistinct

SpecBF == InitBF /\ [][NextBF]_vars

\* the same calls for smaller m and target (a negative target included), to
\* be compared with the calls on every variation of the value list
InitNorm ==
    /\ v_values \in ValueLists
    /\ v_m \in 0..MaxNormM
    /\ v_target \in -1..MaxNormTarget
    /\ v_max_examples \in 0..MaxExamples
    /\ v_op = "none" /\ v_ret = None /\ v_calls = {}
    /\ v_list = v_values
    /\ TermIdle
    /\ bf_target = None /\ bf_max_examples = 0 /\ bf_values = <<>>
    /\ bf_reps = None /\ bf_P = None /\ bf_Pd = None
    /\ SerIdle /\ FigIdle /\ SymIdle /\ GfIdle

SpecNorm == InitNorm /\ [][NextBF]_vars

(***************************************************************************)
(* C1 - C4: the assembled series against the brute-force counts            *)
(***************************************************************************)
\* C1: for every family, m >= 1, N >= 0 and n in 0..N, representations[n] of
\* build_partition_generating_functions(family, m, N, k) is the count of
\* count_ordered_representations(figurate_values_up_to(family, n, k), m, n, ..)
C1_RepresentationsMatch ==
    bf_target # None =>
        g_representations[bf_target[1] + 1] = bf_reps[1].count

\* max_examples = 0, a centered family, a coefficient below the truncation
\* order, and more than one ordered representation
C1_Witness ==
    /\ bf_target # None
    /\ bf_max_examples = 0
    /\ g_family = "centered_k" /\ g_m = 3
    /\ bf_target[1] < g_N
    /\ bf_reps[1].count > 1

\* C2: for every family, m >= 1, N >= 0 and n in 0..N, P[n] is the count of
\* count_unordered_partitions(values, m, n, distinct=False): the number of
\* non-decreasing m-tuples of figurate values summing to n
C2_PartitionsMatch ==
    bf_target # None =>
        g_P[bf_target[1] + 1] = bf_P[1].count

\* fewer partitions than ordered representations, and more than one
C2_Witness ==
    /\ bf_target # None
    /\ g_m = 4
    /\ bf_P[1].count > 1
    /\ bf_P[1].count < bf_reps[1].count

\* C3: with compute_distinct=True, for every family, m >= 1, N >= 0 and n in
\* 0..N, P_distinct[n] is the count of count_unordered_partitions(values, m, n,
\* distinct=True): the number of strictly increasing m-tuples summing to n
C3_DistinctMatch ==
    (bf_target # None /\ g_compute_distinct) =>
        /\ g_P_distinct # None
        /\ g_P_distinct[1][bf_target[1] + 1] = bf_Pd[1].count

\* a target with a partition into four distinct values and also partitions
\* with repeated values
C3_Witness ==
    /\ bf_target # None /\ g_compute_distinct
    /\ g_m = 4
    /\ bf_Pd[1].count >= 1
    /\ bf_Pd[1].count < bf_P[1].count

\* C4: sum_P[n] and sum_P_distinct[n] are exact multiples of m! for every n in
\* 0..N, so P[n] * m! = sum_P[n] and P_distinct[n] * m! = sum_P_distinct[n]
C4_DivisionExact ==
    g_pc = "returned" =>
        /\ Len(g_P) = g_N + 1
        /\ \A n \in 0..g_N : g_P[n + 1] * factorial(g_m) = g_sum_P[n + 1]
        /\ g_compute_distinct =>
              /\ g_P_distinct # None /\ g_sum_P_distinct # None
              /\ Len(g_P_distinct[1]) = g_N + 1
              /\ \A n \in 0..g_N :
                    g_P_distinct[1][n + 1] * factorial(g_m)
                        = g_sum_P_distinct[1][n + 1]

\* m = 4 (m! = 24) with a non-zero sum for the distinct series as well
C4_Witness ==
    /\ g_pc = "returned"
    /\ g_m = 4 /\ g_compute_distinct
    /\ \E n \in 0..g_N : g_sum_P_distinct[1][n + 1] >= 24
    /\ \E n \in 0..g_N : g_sum_P[n + 1] > 24

(***************************************************************************)
(* C5, C6: the conjugacy classes of S_m                                    *)
(***************************************************************************)
RECURSIVE SumOfClassSizes(_, _)
SumOfClassSizes(classes, i) ==
    IF i > Len(classes) THEN 0
    ELSE classes[i].class_size + SumOfClassSizes(classes, i + 1)

\* C5: for every m >= 1 the class sizes of conjugacy_classes_Sm(m) sum to m!
C5_ClassSizesSum ==
    (c_pc = "returned" /\ c_m >= 1) =>
        SumOfClassSizes(c_classes, 1) = factorial(c_m)

\* m = 8, with its 22 classes
C5_Witness ==
    /\ c_pc = "returned"
    /\ c_m = 8
    /\ Len(c_classes) = 22
    /\ \E i \in 1..Len(c_classes) : c_classes[i].class_size > 1

RECURSIVE SumSeq(_)
SumSeq(q) == IF q = <<>> THEN 0 ELSE Head(q) + SumSeq(Tail(q))

\* q is a non-increasing tuple of positive integers summing to n
IsPartitionOf(q, n) ==
    /\ \A i \in 1..Len(q) : q[i] >= 1
    /\ \A i \in 1..(Len(q) - 1) : q[i] >= q[i + 1]
    /\ SumSeq(q) = n

\* p precedes q in descending lexicographic order (p is the greater)
LexGreater(p, q) ==
    \E i \in 1..Len(p) :
        /\ \A j \in 1..(i - 1) : j <= Len(q) /\ p[j] = q[j]
        /\ (i > Len(q) \/ p[i] > q[i])

\* the number of partitions of n into parts of size at most k
RECURSIVE PartitionCount(_, _)
PartitionCount(n, k) ==
    IF n = 0 THEN 1
    ELSE IF n < 0 \/ k = 0 THEN 0
    ELSE PartitionCount(n - k, k) + PartitionCount(n, k - 1)

\* C6: for every m >= 1 integer_partitions(m) holds every partition of m
\* exactly once, each a non-increasing tuple of positive integers summing to m,
\* in strictly descending lexicographic order; for m = 4 it is
\* [(4,),(3,1),(2,2),(2,1,1),(1,1,1,1)]; conjugacy_classes_Sm(m) returns its
\* records in the same order
C6_PartitionsCanonical ==
    (c_pc # "call" /\ c_m >= 1) =>
        /\ \A i \in 1..Len(c_parts) : IsPartitionOf(c_parts[i], c_m)
        /\ \A i \in 1..(Len(c_parts) - 1) : LexGreater(c_parts[i], c_parts[i + 1])
        /\ Len(c_parts) = PartitionCount(c_m, c_m)
        /\ c_m = 4 => c_parts = <<<<4>>, <<3, 1>>, <<2, 2>>, <<2, 1, 1>>, <<1, 1, 1, 1>>>>
        /\ \A i \in 1..Len(c_classes) : c_classes[i].cycle_type = c_parts[i]
        /\ c_pc = "returned" => Len(c_classes) = Len(c_parts)

\* m = 4, all five records returned
C6_Witness ==
    /\ c_pc = "returned"
    /\ c_m = 4
    /\ Len(c_classes) = 5
    /\ c_classes[4].cycle_type = <<2, 1, 1>>

(***************************************************************************)
(* C7: the value lists                                                     *)
(***************************************************************************)
\* v is a value of the family: T(j), j^2 or C_k(j) for some j >= 0
IsFigurate(family, k, v) ==
    \E j \in 0..(v + 1) :
        IF family = "triangular" THEN 2 * v = j * (j + 1)
        ELSE IF family = "square" THEN v = j * j
        ELSE 2 * (v - 1) = k[1] * j * (j - 1)

\* vals is strictly ascending and holds exactly the family's values <= N
IsValueList(vals, family, k, N) ==
    /\ \A i \in 1..(Len(vals) - 1) : vals[i] < vals[i + 1]
    /\ {vals[i] : i \in 1..Len(vals)} = {v \in 0..N : IsFigurate(family, k, v)}
    /\ (family = "centered_k" /\ Len(vals) > 0) => vals[1] = 1

\* the family and k are accepted and the bound is not negative
FigArgsValid ==
    /\ f_family \in Families
    /\ f_N >= 0
    /\ f_family = "centered_k" => (f_k # None /\ f_k[1] >= 3)

\* both calls return the list lst, when made
FigReturns(lst) ==
    /\ f_gen # None => f_gen[1] = Ok(lst)
    /\ f_vals # None => f_vals[1] = Ok(lst)

\* what C7 says of every family and bound, and of triangular N = 15 and
\* square N = 20
C7_Lists ==
    FigArgsValid =>
        /\ f_gen # None =>
              f_gen[1].exc = "none" /\ IsValueList(f_gen[1].val, f_family, f_k, f_N)
        /\ f_vals # None =>
              f_vals[1].exc = "none" /\ IsValueList(f_vals[1].val, f_family, f_k, f_N)
        /\ (f_family = "triangular" /\ f_N = 15) => FigReturns(<<0, 1, 3, 6, 10, 15>>)
        /\ (f_family = "square" /\ f_N = 20) => FigReturns(<<0, 1, 4, 9, 16>>)

C8_MulCommAssoc ==
    s_pc = "mul_done" =>
        /\ s_ret.ab = s_ret.ba
        /\ s_ret.ab_c = s_ret.a_bc

\* a product whose top coefficient mixes three non-zero factors, one input
\* longer and one shorter than N+1
C8_Witness ==
    /\ s_pc = "mul_done"
    /\ s_N = 1
    /\ Len(s_a) > s_N + 1 /\ Len(s_b) < s_N + 1 /\ Len(s_c) = s_N + 1
    /\ s_ret.ab_c[s_N + 1] # 0
    /\ s_ret.ab[1] # 0 /\ s_ret.ab[2] # 0

(***************************************************************************)
(* C9: the laws of pow_series.                                             *)
(***************************************************************************)
\* C9: pow_series(a,0,N) = one_series(N); pow_series(a,1,N) is a padded or
\* truncated to length N+1; pow_series(a,e1+e2,N) =
\* mul_series(pow_series(a,e1,N), pow_series(a,e2,N), N)
C9_PowLaws ==
    s_pc = "pow_done" =>
        /\ s_ret.p0 = [i \in 1..(s_N + 1) |-> IF i = 1 THEN 1 ELSE 0]
        /\ s_ret.p1 = [i \in 1..(s_N + 1) |-> IF i <= Len(s_a) THEN s_a[i] ELSE 0]
        /\ s_ret.psum = mul_series(s_ret.pe1, s_ret.pe2, s_N)

\* exponents 3 and 2 (both through the squaring loop), a two-term base, and a
\* non-zero top coefficient of the power
C9_Witness ==
    /\ s_pc = "pow_done"
    /\ s_e1 = 3 /\ s_e2 = 2
    /\ Len(s_a) = 2 /\ s_a[1] # 0 /\ s_a[2] # 0
    /\ s_N = 2
    /\ s_ret.psum[s_N + 1] # 0

(***************************************************************************)
(* C10: compose_q_to_qk substitutes q -> q^k.                              *)
(***************************************************************************)
\* C10: c = compose_q_to_qk(a,k,N) has length N+1, c[k*n] = a[n] for every
\* index n of a with k*n <= N, c is 0 at every other position, and
\* compose_q_to_qk(one_series(N),k,N) = one_series(N)
C10_Compose ==
    s_pc = "compose_done" =>
        /\ Len(s_ret.c) = s_N + 1
        /\ \A n \in 0..(Len(s_a) - 1) : s_k * n <= s_N => s_ret.c[s_k * n + 1] = s_a[n + 1]
        /\ \A i \in 0..s_N :
              (~ \E n \in 0..(Len(s_a) - 1) : s_k * n = i) => s_ret.c[i + 1] = 0
        /\ s_ret.c_one = one_series(s_N)

\* k = 2 moves a non-zero a[1] to position 2, leaving position 1 empty
C10_Witness ==
    /\ s_pc = "compose_done"
    /\ s_k = 2 /\ s_N = 2
    /\ Len(s_a) = 2 /\ s_a[2] # 0
    /\ s_ret.c[3] = s_a[2] /\ s_ret.c[2] = 0

(***************************************************************************)
(* C11, C12, C16: the contract of the series engine                        *)
(***************************************************************************)
\* the call has returned a list and the caller has not touched it yet
EngineReturned ==
    s_pc = "engine_done" /\ s_res # None /\ s_res[1].exc = "none"

\* the list the call returned
EngineResult == s_heap[s_res[1].val]

\* the lists the caller passed, as they were before the call
ArgA == s_a
ArgB == IF s_rb = s_ra THEN s_a ELSE s_b

\* the coefficient of q^n of a list read as a series
Coefficient(a, n) == IF n + 1 <= Len(a) THEN a[n + 1] ELSE 0

\* C11: for every N >= 0 and inputs of any length (empty, shorter than, equal
\* to or longer than N+1) every series function that returns gives a list of
\* length exactly N+1, and add_series / sub_series read a short input as
\* padded with zeros and a long input as cut to its first N+1 terms
C11_Lengths ==
    EngineReturned =>
        /\ Len(EngineResult) = s_N + 1
        /\ s_op = "add_series" =>
              \A n \in 0..s_N :
                 EngineResult[n + 1] = Coefficient(ArgA, n) + Coefficient(ArgB, n)
        /\ s_op = "sub_series" =>
              \A n \in 0..s_N :
                 EngineResult[n + 1] = Coefficient(ArgA, n) - Coefficient(ArgB, n)

\* scalar_mul_series has returned for an input longer than N+1
C11_Witness ==
    /\ EngineReturned
    /\ s_op = "scalar_mul_series"
    /\ Len(s_a) > s_N + 1
    /\ s_scalar # 0

\* C12: after a call (raising or not) the lists passed hold what they held
\* before; the list returned is neither of the objects passed, also for
\* pow_series with exponent 1 and an input of length N+1; and a later change
\* of the returned list changes none of the lists passed
C12_NoSharing ==
    s_pc \in {"engine_done", "engine_changed"} =>
        /\ s_heap[s_ra] = ArgA
        /\ s_heap[s_rb] = ArgB
        /\ s_res[1].exc = "none" => s_res[1].val \notin {s_ra, s_rb}

\* pow_series(a, 1, N) returned for len(a) = N+1, and the caller changed the
\* returned list
C12_Witness ==
    /\ s_pc = "engine_changed"
    /\ s_op = "pow_series"
    /\ s_e1 = 1
    /\ Len(s_a) = s_N + 1
    /\ s_heap[s_res[1].val] # s_a

\* the call raised ValueError, returned nothing and allocated nothing
EngineRejected ==
    /\ s_res[1].exc = "ValueError"
    /\ s_heap = <<s_a, s_b>>

\* C16: pow_series raises ValueError for every exponent < 0, shift_series for
\* every k < 0 and compose_q_to_qk for every k <= 0, and no series is
\* returned; for exponent >= 0, k >= 0 and k >= 1 they raise nothing, and
\* shift_series returns c with c[n] = a[n-k] for n >= k and 0 for n < k
C16_Domain ==
    s_pc = "engine_done" =>
        /\ s_op = "pow_series" =>
              IF s_e1 < 0 THEN EngineRejected ELSE s_res[1].exc = "none"
        /\ s_op = "shift_series" =>
              IF s_k < 0 THEN EngineRejected
              ELSE /\ s_res[1].exc = "none"
                   /\ \A n \in 0..s_N :
                         EngineResult[n + 1] =
                            IF n >= s_k THEN Coefficient(ArgA, n - s_k) ELSE 0
        /\ s_op = "compose_q_to_qk" =>
              IF s_k <= 0 THEN EngineRejected ELSE s_res[1].exc = "none"

\* pow_series was called with a negative exponent
C16_Witness ==
    /\ s_pc = "engine_done"
    /\ s_op = "pow_series"
    /\ s_e1 < 0
    /\ s_res[1].exc = "ValueError"

\* shift_series moved a non-zero coefficient
C16_ShiftWitness ==
    /\ EngineReturned
    /\ s_op = "shift_series"
    /\ s_k >= 1 /\ s_k <= s_N
    /\ EngineResult[s_k + 1] # 0

(***************************************************************************)
(* C13: conjugacy_classes_Sm on m <= 0                                     *)
(***************************************************************************)
\* C13: conjugacy_classes_Sm(m) raises for every m <= 0 and returns no list
\* of records: a call with m <= 0 never reaches its return statement
C13_RejectsNonPositive ==
    c_m <= 0 => c_pc # "returned"

(***************************************************************************)
(* C14: rejected (family, k) arguments of the figurate operations          *)
(***************************************************************************)
\* the family tag is unknown, or it is centered_k with k absent or k < 3
FamilyRejected ==
    \/ f_family \notin Families
    \/ f_family = "centered_k" /\ (f_k = None \/ f_k[1] < 3)

\* C14: whenever the family is centered_k with k absent or k < 3, or the
\* family tag is unknown, figurate_values_up_to and the centered-polygonal
\* generator raise ValueError, for every bound supplied (negative included)
C14_RejectsBadFamily ==
    FamilyRejected =>
        /\ f_vals # None => f_vals[1].exc = "ValueError"
        /\ f_gen # None => f_gen[1].exc = "ValueError"

(***************************************************************************)
(* C15: rejected arguments of build_partition_generating_functions         *)
(***************************************************************************)
\* m <= 0, an unknown family tag, or centered_k with k absent or k < 3
BuildRejected ==
    \/ g_m <= 0
    \/ g_family \notin Families
    \/ g_family = "centered_k" /\ (g_k = None \/ g_k[1] < 3)

\* C15: build_partition_generating_functions raises ValueError for every
\* m <= 0, for centered_k with k absent or k < 3 and for an unknown family
\* tag; the call then builds no part of the result bundle and never returns
C15_BuildRejects ==
    (BuildRejected /\ g_pc # "call") =>
        /\ g_pc = "raised"
        /\ g_exc = "ValueError"
        /\ GfLocalsUnset

\* a call with m >= 1 and centered_k, k = 2 was rejected
C15_Witness ==
    /\ g_pc = "raised"
    /\ g_m >= 1
    /\ g_family = "centered_k"
    /\ g_k = Some(2)

(***************************************************************************)
(* C17 - C20: the brute-force counters against exhaustive enumeration      *)
(***************************************************************************)
\* the values of the list passed, and whether the list repeats none
ValueSet == {v_values[i] : i \in 1..Len(v_values)}
DuplicateFree == Cardinality(ValueSet) = Len(v_values)

\* all m-tuples over the values, without pruning, that sum to the target
TuplesSummingToTarget ==
    {t \in [1..v_m -> ValueSet] : SumSeq(t) = v_target}

NonDecreasing(t) == \A i \in 1..(Len(t) - 1) : t[i] <= t[i + 1]
StrictlyIncreasing(t) == \A i \in 1..(Len(t) - 1) : t[i] < t[i + 1]

\* the counter op has returned for a duplicate-free list and m >= 1
CounterReturned(op) == v_op = op /\ DuplicateFree /\ v_m >= 1

\* C17: for a duplicate-free list V of non-negative integers, m >= 1 and
\* n >= 0, the count of count_ordered_representations(V, m, n, ...) is the
\* number of the |V|^m ordered m-tuples over V that sum to n
C17_OrderedExhaustive ==
    CounterReturned("count_ordered_representations") =>
        v_ret[1].count = Cardinality(TuplesSummingToTarget)

\* the list was passed unsorted, holds a value above the target, and several
\* tuples were counted
C17_Witness ==
    /\ CounterReturned("count_ordered_representations")
    /\ v_m >= 2
    /\ Len(v_values) >= 2 /\ v_values[1] > v_values[2]
    /\ \E v \in ValueSet : v > v_target
    /\ v_ret[1].count >= 2

\* C18: for a duplicate-free V, m >= 1 and n >= 0, the count of
\* count_unordered_partitions(V, m, n, distinct=False) is the number of
\* non-decreasing m-tuples over V that sum to n, and every example recorded
\* is non-decreasing, of length m, over V and sums to n
C18_NonDistinctExhaustive ==
    CounterReturned("count_unordered_partitions_non_distinct") =>
        /\ v_ret[1].count =
              Cardinality({t \in TuplesSummingToTarget : NonDecreasing(t)})
        /\ \A i \in 1..Len(v_ret[1].examples) :
              LET e == v_ret[1].examples[i]
              IN  e \in TuplesSummingToTarget /\ NonDecreasing(e)

\* a partition was counted once although several orderings of it exist
C18_Witness ==
    /\ CounterReturned("count_unordered_partitions_non_distinct")
    /\ v_ret[1].count >= 1
    /\ v_ret[1].examples # <<>>
    /\ Cardinality(TuplesSummingToTarget) > v_ret[1].count

\* C19: for a duplicate-free V, m >= 1 and n >= 0, the count of
\* count_unordered_partitions(V, m, n, distinct=True) is the number of
\* strictly increasing m-tuples over V that sum to n, every example recorded
\* is strictly increasing, and every recursive call for position pos+1 gets a
\* start index strictly after the index chosen at position pos
C19_DistinctExhaustive ==
    CounterReturned("count_unordered_partitions_distinct") =>
        /\ v_ret[1].count =
              Cardinality({t \in TuplesSummingToTarget : StrictlyIncreasing(t)})
        /\ \A i \in 1..Len(v_ret[1].examples) :
              LET e == v_ret[1].examples[i]
              IN  e \in TuplesSummingToTarget /\ StrictlyIncreasing(e)
        /\ \A c \in v_calls : c[3] > c[2]

\* a strictly increasing tuple of two or more values was counted
C19_Witness ==
    /\ CounterReturned("count_unordered_partitions_distinct")
    /\ v_m >= 2
    /\ v_ret[1].count >= 1
    /\ v_ret[1].examples # <<>>
    /\ v_calls # {}

\* the count the counter op gives for the arguments of the call when it is
\* run with max_examples = me
CountWith(op, me) ==
    IF op = "count_ordered_representations"
    THEN count_ordered_representations(v_values, v_m, v_target, me).count
    ELSE IF op = "count_unordered_partitions_non_distinct"
    THEN count_unordered_partitions_non_distinct(v_values, v_m, v_target, me).count
    ELSE count_unordered_partitions_distinct(v_values, v_m, v_target, me).count

\* C20: in all three counters, for every input and max_examples >= 0, the
\* count does not depend on max_examples and the example list has length
\* min(count, max_examples); with max_examples = 0 the list is empty
C20_ExamplesCapped ==
    v_ret # None =>
        /\ \A me \in 0..(MaxExamples + 1) : v_ret[1].count = CountWith(v_op, me)
        /\ Len(v_ret[1].examples) = Min(v_ret[1].count, v_max_examples)
        /\ v_max_examples = 0 => v_ret[1].examples = <<>>

\* the example list was full and counting went on
C20_Witness ==
    /\ v_ret # None
    /\ v_max_examples >= 1
    /\ v_ret[1].count > v_max_examples
    /\ Len(v_ret[1].examples) = v_max_examples

(***************************************************************************)
(* C21: the order of the recorded examples                                 *)
(***************************************************************************)
\* p comes before q in lexicographic order, position 1 most significant
LexBefore(p, q) ==
    \E i \in 1..Len(p) : p[i] < q[i] /\ \A j \in 1..(i - 1) : p[j] = q[j]

\* the tuples of S in ascending lexicographic order
RECURSIVE InLexOrder(_)
InLexOrder(S) ==
    IF S = {} THEN <<>>
    ELSE LET first == CHOOSE p \in S : \A q \in S \ {p} : LexBefore(p, q)
         IN  <<first>> \o InLexOrder(S \ {first})

\* the solutions the counter called counts, for a duplicate-free list
Solutions ==
    IF v_op = "count_ordered_representations" THEN TuplesSummingToTarget
    ELSE IF v_op = "count_unordered_partitions_non_distinct"
    THEN {t \in TuplesSummingToTarget : NonDecreasing(t)}
    ELSE {t \in TuplesSummingToTarget : StrictlyIncreasing(t)}

ValueListUpTo(family, k, N) ==
    LET vals == figurate_values_up_to(family, N, k).val
    IN  {vals[i] : i \in 1..Len(vals)}

\* the call returned a list of length N+1 over {0, 1} whose coefficient n is
\* 1 exactly when n is in the value list (and so a value of the family)
IsIndicatorSeries(r, family, k, N) ==
    /\ r.exc = "none"
    /\ Len(r.val) = N + 1
    /\ \A n \in 0..N :
          /\ r.val[n + 1] \in {0, 1}
          /\ r.val[n + 1] = 1 <=> n \in ValueListUpTo(family, k, N)
          /\ r.val[n + 1] = 1 <=> IsFigurate(family, k, n)

\* C22: for every family and N >= 0, triangular_series, square_series,
\* centered_polygonal_series and base_figurate_series return a series of
\* length N+1 whose coefficients are 0 or 1, with coefficient n equal to 1 if
\* and only if n is in the family's value list up to N
C22_IndicatorSeries ==
    FigArgsValid =>
        /\ f_ser # None => IsIndicatorSeries(f_ser[1], f_family, f_k, f_N)
        /\ f_base # None => IsIndicatorSeries(f_base[1], f_family, f_k, f_N)

\* both series were built for the centered pentagonal numbers up to 16
C22_Witness ==
    /\ f_family = "centered_k" /\ f_k = Some(5) /\ f_N >= 16
    /\ f_ser # None /\ f_base # None
    /\ f_base[1].val[17] = 1 /\ f_base[1].val[6] = 0
    /\ f_ser[1] = f_base[1]

(***************************************************************************)
(* C23: the class-size division is exact                                   *)
(***************************************************************************)
\* the number of cycles of length l in the cycle type
CyclesOfLength(ct, l) == Cardinality({i \in 1..Len(ct) : ct[i] = l})

\* the product over the lengths l in 1..top of l^(m_l) * m_l!
RECURSIVE CentralizerOrder(_, _)
CentralizerOrder(ct, top) ==
    IF top = 0 THEN 1
    ELSE int_pow(top, CyclesOfLength(ct, top))
            * factorial(CyclesOfLength(ct, top))
            * CentralizerOrder(ct, top - 1)

\* C23: for every m >= 1 and every cycle type of integer_partitions(m) the
\* denominator, the product over the lengths l of l^(m_l) * m_l!, divides m!
\* and class_size_for_cycle_type gives class_size * denominator = m!
C23_ExactClassSize ==
    c_m >= 1 =>
        \A i \in 1..Len(c_classes) :
            /\ factorial(c_m) % CentralizerOrder(c_classes[i].cycle_type, c_m) = 0
            /\ c_classes[i].class_size
                  * CentralizerOrder(c_classes[i].cycle_type, c_m) = factorial(c_m)
            /\ c_classes[i].class_size >= 1

\* the class of cycle type (2, 2, 1, 1) of S_6, of size 6! / (4 * 2 * 2) = 45
C23_Witness ==
    /\ c_m = 6
    /\ \E i \in 1..Len(c_classes) :
          /\ c_classes[i].cycle_type = <<2, 2, 1, 1>>
          /\ c_classes[i].class_size = 45

(***************************************************************************)
(* C24: the class series attached to the records                           *)
(***************************************************************************)
\* the product of pow_series(compose_q_to_qk(base, l, N), m_l, N) over the
\* lengths l..top, the smallest length multiplied in last and one_series(N)
\* as the innermost factor
RECURSIVE ProductOverLengths(_, _, _, _, _)
ProductOverLengths(base, ct, l, top, N) ==
    IF l > top THEN one_series(N)
    ELSE mul_series(
            pow_series(compose_q_to_qk(base, l, N), CyclesOfLength(ct, l), N),
            ProductOverLengths(base, ct, l + 1, top, N), N)

\* the build has returned and the validator has not run yet
BuildReturned == g_pc = "returned" /\ bf_target = None

\* C24: after a successful build the records are one per partition of m in
\* canonical order, each with a C_series of length N+1 that is the truncated
\* product over the distinct cycle lengths l of
\* pow_series(compose_q_to_qk(base, l, N), m_l, N) started from one_series(N),
\* whatever the order in which the lengths are multiplied in
C24_ClassSeries ==
    BuildReturned =>
        /\ Len(g_classes) = PartitionCount(g_m, g_m)
        /\ \A i \in 1..Len(g_classes) :
              /\ IsPartitionOf(g_classes[i].cycle_type, g_m)
              /\ i > 1 => LexGreater(g_classes[i - 1].cycle_type,
                                     g_classes[i].cycle_type)
              /\ g_classes[i].C_series # None
              /\ Len(g_classes[i].C_series[1]) = g_N + 1
              /\ g_classes[i].C_series[1] =
                    ProductOverLengths(g_base, g_classes[i].cycle_type,
                                       1, g_m, g_N)

\* the class (2, 1, 1) of S_4 got a series with a coefficient above 1
C24_Witness ==
    /\ BuildReturned
    /\ g_m = 4 /\ g_N >= 4
    /\ g_classes[4].cycle_type = <<2, 1, 1>>
    /\ \E n \in 0..g_N : g_classes[4].C_series[1][n + 1] > 1

\* the dicts of the class_data the running call holds
CurrentRecords == [i \in 1..Len(o_refs) |-> o_heap[o_refs[i]]]

\* what one call with these parameters attaches, in a program that made no
\* call before
FreshRecords(family, k, m, N) ==
    LET base == base_figurate_series(family, N, k).val
        classes == conjugacy_classes_Sm(m)
    IN  [i \in 1..Len(classes) |->
            [classes[i] EXCEPT !.C_series =
                Some(class_generating_series(classes[i].cycle_type, base, N))]]

\* C25: while and after a later call runs, every dict of the earlier result
\* holds what it held when that call returned, the later call's dicts are
\* none of the earlier ones, and the later call returns the dicts and series
\* a first call with its parameters returns
C25_NoSharedState ==
    o_first # None =>
        LET first == o_first[1]
        IN  /\ \A i \in 1..Len(first.class_data) :
                  o_heap[first.class_data[i]] = first.records[i]
            /\ \A i \in 1..Len(first.class_data), j \in 1..Len(o_refs) :
                  first.class_data[i] # o_refs[j]
            /\ g_pc = "returned" =>
                  /\ CurrentRecords = FreshRecords(g_family, g_k, g_m, g_N)
                  /\ g_representations =
                        pow_series(base_figurate_series(g_family, g_N, g_k).val,
                                   g_m, g_N)

\* a second call for the same S_3 at another truncation order has returned
C25_Witness ==
    /\ o_first # None
    /\ g_pc = "returned"
    /\ o_first[1].m = 3 /\ g_m = 3
    /\ o_first[1].N # g_N
    /\ Len(o_first[1].class_data) = 3 /\ Len(o_refs) = 3

\* two series have the same coefficients of q^0 .. q^N
AgreeUpTo(a, b, N) == \A n \in 0..N : a[n + 1] = b[n + 1]

\* C26: two successful builds for the same family, k and m at truncation
\* orders N <= N' agree on the coefficients 0..N of representations, P,
\* P_distinct (when both computed it) and of every class's C_series
C26_TruncationIndependent ==
    (/\ o_first # None
     /\ g_pc = "returned"
     /\ o_first[1].family = g_family /\ o_first[1].k = g_k
     /\ o_first[1].m = g_m) =>
        LET first == o_first[1]
            N == Min(first.N, g_N)
        IN  /\ AgreeUpTo(first.representations, g_representations, N)
            /\ AgreeUpTo(first.P, g_P, N)
            /\ (first.P_distinct # None /\ g_P_distinct # None) =>
                  AgreeUpTo(first.P_distinct[1], g_P_distinct[1], N)
            /\ Len(first.records) = Len(o_refs)
            /\ \A i \in 1..Len(o_refs) :
                  /\ first.records[i].cycle_type = CurrentRecords[i].cycle_type
                  /\ AgreeUpTo(first.records[i].C_series[1],
                               CurrentRecords[i].C_series[1], N)

\* the triangular build for m = 3 was made at N = 3 and again at a larger
\* order, with 3 = 0 + 0 + 3 = 1 + 1 + 1 counted by both
C26_Witness ==
    /\ o_first # None
    /\ g_pc = "returned"
    /\ o_first[1].family = "triangular" /\ g_family = "triangular"
    /\ o_first[1].m = 3 /\ g_m = 3
    /\ o_first[1].N = 3 /\ g_N > 3
    /\ o_first[1].P_distinct # None /\ g_P_distinct # None
    /\ o_first[1].P[4] = 2 /\ g_P[4] = 2

\* the reorderings of the list v
Reorderings(v) ==
    {[i \in 1..Len(v) |-> v[p[i]]] : p \in Permutations(1..Len(v))}

\* v_values without its entries above the target, and v_values with one more
\* entry above the target in front or at the end
AboveTargetVaried ==
    {SelectSeq(v_values, LAMBDA v : v <= v_target)}
        \cup {Append(v_values, x) : x \in (v_target + 1)..MaxValue}
        \cup {<<x>> \o v_values : x \in (v_target + 1)..MaxValue}

\* the counter v_op on the list w with the other arguments of the call
ResultOn(w) ==
    IF v_op = "count_ordered_representations"
    THEN count_ordered_representations(w, v_m, v_target, v_max_examples)
    ELSE IF v_op = "count_unordered_partitions_non_distinct"
    THEN count_unordered_partitions_non_distinct(w, v_m, v_target, v_max_examples)
    ELSE count_unordered_partitions_distinct(w, v_m, v_target, v_max_examples)

\* C27: a counter returns the same count and the same example list on every
\* reordering of its value list and with or without entries above the target,
\* and the list the caller passed holds afterwards what it held before
C27_NormalisesValues ==
    v_ret # None =>
        /\ \A w \in Reorderings(v_values) \cup AboveTargetVaried :
              ResultOn(w) = v_ret[1]
        /\ v_list = v_values

\* the list was passed in descending order with an entry above the target,
\* and solutions were found and recorded
C27_Witness ==
    /\ v_ret # None
    /\ v_values = <<3, 2, 1>> /\ v_target = 2 /\ v_m = 2
    /\ v_ret[1].count >= 1 /\ v_ret[1].examples # <<>>
    /\ v_list = <<3, 2, 1>>

\* C28: with m = 0 every counter returns count 1 and the single example ()
\* (no example when max_examples = 0) for target 0, and count 0 with no
\* example for every other target; for a target n >= 0 the count is the
\* coefficient of q^n in pow_series(base, 0, N), which is one_series(N)
C28_EmptyTuple ==
    (v_ret # None /\ v_m = 0) =>
        /\ v_target = 0 =>
              /\ v_ret[1].count = 1
              /\ v_ret[1].examples =
                    IF v_max_examples >= 1 THEN << <<>> >> ELSE <<>>
        /\ v_target # 0 =>
              /\ v_ret[1].count = 0
              /\ v_ret[1].examples = <<>>
        /\ v_target >= 0 =>
              /\ pow_series(v_values, 0, v_target) = one_series(v_target)
              /\ v_ret[1].count = pow_series(v_values, 0, v_target)[v_target + 1]

\* the ordered counter was called with m = 0 and target 0 on a list that
\* holds 0, and returned the empty tuple
C28_Witness ==
    /\ v_op = "count_ordered_representations"
    /\ v_m = 0 /\ v_target = 0 /\ v_max_examples >= 1
    /\ v_values = <<0, 1>>
    /\ v_ret[1].count = 1
    /\ v_ret[1].examples = << <<>> >>

\* what the generator whose loop is run returns, as one call
GeneratorResult ==
    IF f_family = "triangular" THEN triangular_numbers_up_to(f_N)
    ELSE IF f_family = "square" THEN square_numbers_up_to(f_N)
    ELSE centered_polygonal_numbers_up_to(f_k[1], f_N).val

\* while a search runs, the invocation at depth i has pos = i - 1 <= m and a
\* remaining that is not negative; a run that is done has the result of the
\* call
SearchBounded ==
    /\ t_pc = "search" =>
          /\ Len(t_stack) <= v_m + 1
          /\ \A i \in 1..Len(t_stack) :
                /\ t_stack[i].pos = i - 1
                /\ t_stack[i].remaining >= 0
    /\ (t_pc = "done" /\ v_op # "none") => v_ret[1] = ResultOn(v_values)
    /\ (t_pc = "done" /\ v_op = "none") => t_out = GeneratorResult

C29_WitnessGenerator ==
    /\ t_pc = "done" /\ v_op = "none"
    /\ f_N = -1 /\ t_out = <<>>

\* the n-fold truncated product of b, one mul_series at a time
RECURSIVE FoldProduct(_, _, _)
FoldProduct(b, n, N) ==
    IF n = 0 THEN one_series(N)
    ELSE mul_series(FoldProduct(b, n - 1, N), b, N)

\* at "while e > 0": result * factor^e is base^exponent modulo q^(N+1), and e
\* is a non-negative integer; after the loop e is 0 and the result returned
\* is the exponent-fold product, which is also what pow_series gives
PowLoopInvariant ==
    /\ s_pc = "pow_loop" =>
          /\ p_e \in Nat
          /\ mul_series(p_result, FoldProduct(p_factor, p_e, s_N), s_N) =
                FoldProduct(s_a, s_e1, s_N)
    /\ s_pc = "pow_returned" =>
          /\ p_e = 0
          /\ s_ret = FoldProduct(s_a, s_e1, s_N)
          /\ s_ret = pow_series(s_a, s_e1, s_N)

\* C30: in the loop of pow_series for an exponent >= 2, result * factor^e
\* equals base^exponent modulo q^(N+1) at the start of every iteration, e is
\* a non-negative integer that every iteration makes smaller, and the loop
\* ends with e = 0 and result the exponent-fold truncated product of base
C30_PowLoop ==
    [](PowLoopInvariant) /\ [][s_pc' = "pow_loop" => p_e' < p_e]_vars

\* the loop for exponent 6 is at its third iteration, after one that only
\* squared and one that multiplied, with a result that is not 1
C30_Witness ==
    /\ s_pc = "pow_loop"
    /\ s_e1 = 6 /\ p_e = 1
    /\ s_N = 2 /\ s_a = <<2, -1, 2>>
    /\ p_result # one_series(s_N)
====
